---- MODULE Spec2Model ----
(***************************************************************************)
(* Smart-Charger-Software: the charging-cycle handlers (Charge_Cycle and   *)
(* its Fast / Topping / Trickle / Standby subclasses), the alarm pool that *)
(* times them, the voltage regulator's enable pin and set-point, and the   *)
(* supervisor switch of loop() in main.cpp.                                *)
(*                                                                         *)
(* Time is counted in timer ticks.  The cycle periods of FAST_PARMS,       *)
(* TOP_PARMS, TRCKL_PARMS, STANDBY_PARMS and LOOP_DELAY are scaled down to *)
(* a few ticks (the *PeriodMax, *Startup and LoopDelay definitions); every *)
(* other parameter keeps the value of the source.                          *)
(***************************************************************************)
EXTENDS Integers, Sequences, FiniteSets, TLC

VARIABLES
    charger_state,      \* main.cpp: charger_state_t charger_state
    state_code,         \* Charge_Cycle::state_code, per phase object
    set_voltage,        \* Charge_Cycle::set_voltage, per phase object
    charge_timer_id,    \* Charge_Cycle::charge_timer_id, per phase object
    since_start,        \* millis() - Charge_Cycle::start_time, per phase object
    pool,               \* Alarm_Pool::pool[0 .. entries-1] (entries = Len(pool))
    enable_port,        \* level of GP_VREG_ENABLE (TRUE = regulator on)
    vreg_mv,            \* set-point last programmed by Vreg::set_voltage
    loop_elapsed,       \* millis() - loop_timer, saturated at LoopDelay
    last,               \* what the last supervisor step / call did and read
    rb,                 \* a RingBuffer16: head, tail, buffer[], buffer_overflow
    rb_log,             \* the samples appended to rb and the get() calls made
    out,                \* the value a formatting function was last given and
                        \* the characters it wrote to its buffer
    display,            \* per phase object: millis() - display_timer, saturated,
                        \* and whether the display was refreshed since start()
    adding              \* the Alarm_Pool::add call in progress: the stores it
                        \* has still to make and the memory of pool[entries]

vars == << charger_state, state_code, set_voltage, charge_timer_id, since_start,
           pool, enable_port, vreg_mv, loop_elapsed, last, rb, rb_log, out,
           display, adding >>

----------------------------------------------------------------------------
\* Bounds of the model (scaled periods, in ticks)

LoopDelay == 1
FastPeriodMax == 3
FastStartup == 2
ToppingPeriodMax == 3
ToppingStartup == 2
TricklePeriodMax == 2
StandbyPeriodMax == 2
MaxStarts == 4
MaxOverrun == 1
MaxHarnessStarts == 1
MaxLifecycleStarts == 1
RequestMargin == 20
RingSize == 3
MaxAppends == 5
DrainRuns == 502
DisplayPeriod == 2
MaxCurrentSamples == 11
MaxAddStarts == 2

----------------------------------------------------------------------------
\* Program constants

VREG_VOLTAGE_MIN == 5000
VREG_VOLTAGE_MAX == 16000
BATTERY_DISCHARGED_MV == 13000
VOLTS_HYSTERESIS == 100
BATTERY_CAPACITY == 5500
BATTERY_ADC_TO_MV == 395
STM32_TIME_MAX_ALARMS == 16
AVG_READINGS == 4
AN_READ_MAX == 4096
RB_CHARGING_CURRENT_SAMPLES == 10
SECOND_MS == 1000
MINUTE_MS == 60000
HOUR_MS == 3600000
MCP4726_DAC_MIN == 0
MCP4726_DAC_MAX == 4095

CYCLE_INIT == "INIT"
CYCLE_STARTUP == "STARTUP"
CYCLE_RUNNING == "RUNNING"
CYCLE_DONE == "DONE"
CYCLE_ERROR == "ERROR"
CYCLE_TIMEOUT == "TIMEOUT"

CHARGER_STARTUP == "C_STARTUP"
CHARGER_FAST == "C_FAST"
CHARGER_TOPPING == "C_TOPPING"
CHARGER_TRICKLE == "C_TRICKLE"
CHARGER_STANDBY == "C_STANDBY"
CHARGER_SHUTDOWN == "C_SHUTDOWN"
CHARGER_MENU == "C_MENU"
CHARGER_LOAD_TEST == "C_LOAD_TEST"
CHARGER_CONDITION == "C_CONDITION"

\* The four phase objects of main.cpp
fast_charger == "fast"
topping_charger == "topping"
trickle_charger == "trickle"
standby_charger == "standby"
Phases == {fast_charger, topping_charger, trickle_charger, standby_charger}

FAST_PARMS ==
    [current_target |-> BATTERY_CAPACITY \div 7, current_max |-> 600,
     voltage_target |-> 14400, voltage_step |-> 10,
     charge_period_max |-> FastPeriodMax, startup_period |-> FastStartup]

TOP_PARMS ==
    [current_target |-> BATTERY_CAPACITY \div 20, current_max |-> 600,
     voltage_target |-> 14000, voltage_step |-> 10,
     charge_period_max |-> ToppingPeriodMax, startup_period |-> ToppingStartup]

TRCKL_PARMS ==
    [current_target |-> 0, current_max |-> 600,
     voltage_target |-> 13500, voltage_step |-> 10,
     charge_period_max |-> TricklePeriodMax, startup_period |-> 0]

STANDBY_PARMS ==
    [current_target |-> 0, current_max |-> 0,
     voltage_target |-> 0, voltage_step |-> 0,
     charge_period_max |-> StandbyPeriodMax, startup_period |-> 0]

\* The parameters each phase object is initialised with in setup()
Parms(ph) ==
    CASE ph = fast_charger -> FAST_PARMS
      [] ph = topping_charger -> TOP_PARMS
      [] ph = trickle_charger -> TRCKL_PARMS
      [] ph = standby_charger -> STANDBY_PARMS

----------------------------------------------------------------------------
\* Sensor inputs

\* 12-bit A/D counts the battery pin is sampled at
AdcCounts == {0, 3545, 3646}

\* Battery::get_voltage_mV
get_voltage_mV(adc) == (adc * BATTERY_ADC_TO_MV) \div 100

\* Battery::get_voltage_average_mV over a burst of AVG_READINGS samples
get_voltage_average_mV(burst) ==
    (get_voltage_mV(burst[1]) + get_voltage_mV(burst[2])
       + get_voltage_mV(burst[3]) + get_voltage_mV(burst[4])) \div AVG_READINGS

AdcBursts == {<<a, a, b, b>> : a, b \in AdcCounts}

BatteryVoltages == {get_voltage_mV(a) : a \in AdcCounts}
BatteryAverages == {get_voltage_average_mV(b) : b \in AdcBursts}

\* INA219 readings: bus voltage (mV) and shunt current (mA)
BusReadings == {0, 16000}
SensorCurrents == {275, 500, 700}

\* Vreg::get_current_mA
get_current_mA(bus, battery_avg, sensed) ==
    IF bus > battery_avg + 250 THEN sensed ELSE 0

ChargingCurrents ==
    {get_current_mA(b, v, s) : b \in BusReadings, v \in BatteryAverages,
                               s \in SensorCurrents}

\* The readings of one battery kept on the charger for long runs: it reads
\* charged while a cycle runs, taking no current or 500 mA, and discharged at
\* the end of a Standby period
SteadyVoltages == {get_voltage_mV(3646)}
SteadyAverages == {get_voltage_average_mV(<<0, 0, 0, 0>>)}
SteadyCurrents == {0, 500}

\* The readings the environment offers: every modelled reading, with the
\* number of start() calls capped, or the steady readings with no cap
AllInputs ==
    [currents |-> ChargingCurrents, voltages |-> BatteryVoltages,
     averages |-> BatteryAverages, capped |-> TRUE]
SteadyInputs ==
    [currents |-> SteadyCurrents, voltages |-> SteadyVoltages,
     averages |-> SteadyAverages, capped |-> FALSE]

\* What a read outside Alarm_Pool::pool[] can return
OutOfBoundsWords == {0, 7}
OutOfBoundsAlarms == [period : OutOfBoundsWords, timer : OutOfBoundsWords]

----------------------------------------------------------------------------
\* uint32_t arithmetic (voltage_mv_t, current_ma_t and time_ms_t are uint32_t).
\* A uint32_t x is represented by the integer congruent to x modulo 2^32 that
\* lies in [-2^31, 2^31): a negative n stands for 2^32 + n, the value a
\* subtraction below zero wraps around to.  Sums and differences keep that
\* representation; the order of the unsigned values is U32Lt.

Add32(a, b) == a + b
Sub32(a, b) == a - b
U32Lt(a, b) == IF (a < 0) = (b < 0) THEN a < b ELSE b < 0
U32Gt(a, b) == U32Lt(b, a)
U32Le(a, b) == ~U32Lt(b, a)
U32Ge(a, b) == ~U32Lt(a, b)

----------------------------------------------------------------------------
\* Voltage regulator

\* Arduino map(): long arithmetic, the quotient truncated towards zero
map(x, in_min, in_max, out_min, out_max) ==
    LET num == (x - in_min) * (out_max - out_min)
        den == in_max - in_min
    IN (IF num >= 0 THEN num \div den ELSE -((-num) \div den)) + out_min

\* Vreg::calc_dac: the DAC level for a set-point (the higher the level, the
\* lower the output)
calc_dac(voltage) ==
    map(voltage, VREG_VOLTAGE_MIN, VREG_VOLTAGE_MAX, MCP4726_DAC_MAX,
        MCP4726_DAC_MIN)

\* Faulty variant: set_voltage limits the request from above only
Vreg_set_voltage_no_floor(voltage) ==
    IF U32Gt(voltage, VREG_VOLTAGE_MAX) THEN VREG_VOLTAGE_MAX ELSE voltage

\* Vreg::set_voltage: the set-point the DAC is programmed for
Vreg_set_voltage(voltage) ==
    IF U32Lt(voltage, VREG_VOLTAGE_MIN) THEN VREG_VOLTAGE_MIN
    ELSE IF U32Gt(voltage, VREG_VOLTAGE_MAX) THEN VREG_VOLTAGE_MAX
    ELSE voltage

----------------------------------------------------------------------------
\* Text output: strings are sequences of characters

DigitChars == << "0", "1", "2", "3", "4", "5", "6", "7", "8", "9" >>
Digit(d) == DigitChars[d + 1]

\* printf %u / %d of a value that is not negative
RECURSIVE Decimal(_)
Decimal(n) ==
    IF n < 10 THEN << Digit(n) >>
    ELSE Decimal(n \div 10) \o << Digit(n % 10) >>

\* printf %0<width>u / %0*d: zero-padded to at least `width` characters
ZeroPadded(n, width) ==
    LET digits == Decimal(n)
    IN IF Len(digits) >= width THEN digits
       ELSE [i \in 1..(width - Len(digits)) |-> "0"] \o digits

\* snprintf: at most buffer_len - 1 characters are stored
Truncated(chars, buffer_len) ==
    IF Len(chars) < buffer_len THEN chars ELSE SubSeq(chars, 1, buffer_len - 1)

\* Faulty variant: the minutes are not reduced by the hours
ms_to_hms_time_whole_minutes(period_ms) ==
    LET hours == period_ms \div HOUR_MS
        mins == period_ms \div MINUTE_MS
        secs == (period_ms - mins * MINUTE_MS) \div SECOND_MS
    IN [hours |-> hours, mins |-> mins, secs |-> secs]

\* ms_to_hms_time
ms_to_hms_time(period_ms) ==
    LET hours == period_ms \div HOUR_MS
        mins == (period_ms - hours * HOUR_MS) \div MINUTE_MS
        secs == (period_ms - hours * HOUR_MS - mins * MINUTE_MS) \div SECOND_MS
    IN [hours |-> hours, mins |-> mins, secs |-> secs]

\* ms_to_hms_str: the characters written to the buffer
ms_to_hms_str(period_ms) ==
    LET hms == ms_to_hms_time(period_ms)
    IN IF hms.hours < 100
       THEN ZeroPadded(hms.hours, 2) \o << ":" >> \o ZeroPadded(hms.mins, 2)
              \o << ":" >> \o ZeroPadded(hms.secs, 2)
       ELSE ZeroPadded(hms.hours, 3) \o << ":" >> \o ZeroPadded(hms.mins, 2)

\* pow10
RECURSIVE pow10(_)
pow10(exponent) ==
    IF exponent > 9 THEN 1000000000
    ELSE IF exponent = 0 THEN 1
    ELSE 10 * pow10(exponent - 1)

\* Faulty variant: a fraction that rounds up to the next unit is not carried
milliunits_to_string_no_carry(milliunits, places_given, buffer_len) ==
    LET places == IF places_given > 3 THEN 3 ELSE places_given
        whole == milliunits \div 1000
        roundingFactor == pow10(3 - places)
        fractional ==
            ((milliunits % 1000) + roundingFactor \div 2) \div roundingFactor
    IN Truncated(Decimal(whole) \o << "." >> \o ZeroPadded(fractional, places),
                 buffer_len)

\* milliunits_to_string: the characters written to the buffer
milliunits_to_string(milliunits, places_given, buffer_len) ==
    LET places == IF places_given > 3 THEN 3 ELSE places_given
        whole == milliunits \div 1000
        roundingFactor == pow10(3 - places)
        rounded ==
            ((milliunits % 1000) + roundingFactor \div 2) \div roundingFactor
        carry == rounded >= pow10(places)
        fractional == IF carry THEN 0 ELSE rounded
        whole1 == IF carry THEN whole + 1 ELSE whole
    IN Truncated(Decimal(whole1) \o << "." >> \o ZeroPadded(fractional, places),
                 buffer_len)

----------------------------------------------------------------------------
\* RingBuffer16 (buffer[] is indexed from 0)

\* RingBuffer16::init(entries): `memory` is what the new array holds
RingBuffer16_init(entries, memory) ==
    [buffer |-> memory, buffer_size |-> entries, buffer_overflow |-> FALSE,
     head |-> 0, tail |-> 0]

\* if (++index >= buffer_size) index = 0
RingBuffer16_next(r, index) ==
    IF index + 1 >= r.buffer_size THEN 0 ELSE index + 1

\* Faulty variant: append() moves the tail without setting the flag
RingBuffer16_append_silent(r, entry) ==
    LET head == RingBuffer16_next(r, r.head)
    IN [r EXCEPT !.buffer[r.head] = entry,
                 !.head = head,
                 !.tail = IF head = r.tail THEN RingBuffer16_next(r, r.tail)
                          ELSE r.tail]

\* RingBuffer16::append
RingBuffer16_append(r, entry) ==
    LET head == RingBuffer16_next(r, r.head)
    IN [r EXCEPT !.buffer[r.head] = entry,
                 !.head = head,
                 !.tail = IF head = r.tail THEN RingBuffer16_next(r, r.tail)
                          ELSE r.tail,
                 !.buffer_overflow = (head = r.tail) \/ r.buffer_overflow]

\* RingBuffer16::available
RingBuffer16_available(r) ==
    IF r.head >= r.tail THEN r.head - r.tail
    ELSE r.buffer_size - (r.tail - r.head)

\* RingBuffer16::get: the entry returned, and the object afterwards
RingBuffer16_get_entry(r) ==
    IF RingBuffer16_available(r) # 0 THEN r.buffer[r.tail] ELSE 0
RingBuffer16_get(r) ==
    IF RingBuffer16_available(r) # 0
    THEN [r EXCEPT !.tail = IF r.tail + 1 >= r.buffer_size THEN 0
                            ELSE r.tail + 1]
    ELSE r

\* RingBuffer16::average: the loop from entry i on, with its break at head
RECURSIVE RingBuffer16_total(_, _, _)
RingBuffer16_total(r, n, i) ==
    IF i >= n THEN 0
    ELSE LET ptr == (r.tail + i) % r.buffer_size
         IN r.buffer[ptr] +
              (IF ptr = r.head THEN 0 ELSE RingBuffer16_total(r, n, i + 1))

\* RingBuffer16::average
RingBuffer16_average(r) ==
    LET n == RingBuffer16_available(r)
    IN IF n = 0 THEN 0 ELSE RingBuffer16_total(r, n, 0) \div n

\* RingBuffer16::overflow: the value returned, and the object afterwards
RingBuffer16_overflow_value(r) == r.buffer_overflow
RingBuffer16_overflow(r) == [r EXCEPT !.buffer_overflow = FALSE]

----------------------------------------------------------------------------
\* Alarm pool (alarms are always added with handler == nullptr)

\* Alarm::Alarm(alarm_id, period_ms, handler, user_data)
NewAlarm(period_ms) == [period |-> period_ms, timer |-> period_ms]

\* Faulty variant: an alarm that reaches zero is loaded with its period again
Alarm_dec_reload(a) ==
    IF a.timer # 0
    THEN [a EXCEPT !.timer = IF a.timer = 1 THEN a.period ELSE a.timer - 1]
    ELSE a

\* Alarm::dec with no handler
Alarm_dec(a) == IF a.timer # 0 THEN [a EXCEPT !.timer = a.timer - 1] ELSE a

\* Faulty variant: alarms that have run down are taken out of the pool
Alarm_Pool_dec_drop(p) ==
    SelectSeq([i \in 1..Len(p) |-> Alarm_dec(p[i])], LAMBDA a : a.timer # 0)

\* Alarm_Pool::dec
Alarm_Pool_dec(p) == [i \in 1..Len(p) |-> Alarm_dec(p[i])]

\* Faulty variant: a full pool is emptied and its first slot used again
Alarm_Pool_add_pool_recycle(p, period_ms) ==
    IF Len(p) < STM32_TIME_MAX_ALARMS THEN Append(p, NewAlarm(period_ms))
    ELSE << NewAlarm(period_ms) >>

\* Faulty variant: dec() counts down every slot of the array
Alarm_Pool_dec_memory_all(mem, entries) ==
    [i \in 1..Len(mem) |-> Alarm_dec(mem[i])]

\* Alarm_Pool::dec on the array pool[] as it lies in memory, of which the
\* first `entries` slots are in use
Alarm_Pool_dec_memory(mem, entries) ==
    [i \in 1..Len(mem) |-> IF i <= entries THEN Alarm_dec(mem[i]) ELSE mem[i]]

\* Alarm_Pool::add: the pool after the call
Alarm_Pool_add_pool(p, period_ms) ==
    IF Len(p) < STM32_TIME_MAX_ALARMS THEN Append(p, NewAlarm(period_ms)) ELSE p

\* Faulty variant: add() returns the index of the slot it filled
Alarm_Pool_add_id_index(p) ==
    IF Len(p) < STM32_TIME_MAX_ALARMS THEN Len(p) ELSE -1

\* Alarm_Pool::add: the id returned
Alarm_Pool_add_id(p) ==
    IF Len(p) < STM32_TIME_MAX_ALARMS THEN Len(p) + 1 ELSE -1

\* pool[id-1] as Alarm_Pool::get / Alarm_Pool::elapsed read it.  Slots of the
\* array past `entries` hold default-constructed alarms; an index outside the
\* array reads whatever memory is there (oob).
PoolSlot(p, id, oob) ==
    IF id \in 1..Len(p) THEN p[id]
    ELSE IF id \in 1..STM32_TIME_MAX_ALARMS THEN [period |-> 0, timer |-> 0]
    ELSE oob

\* Alarm::get
Alarm_get(a) == a.timer

\* Alarm::elapsed
Alarm_elapsed(a) == Sub32(a.period, a.timer)

----------------------------------------------------------------------------
\* Charge_Cycle

\* Faulty variant: the startup period is ignored
startup_time_remaining_none(charging_elapsed, startup_period) == 0

\* Charge_Cycle::startup_time_remaining
startup_time_remaining(charging_elapsed, startup_period) ==
    IF U32Ge(charging_elapsed, startup_period) THEN 0
    ELSE Sub32(startup_period, charging_elapsed)

\* Charge_Cycle::start: the soft-start set voltage
start_set_voltage(battery_voltage) ==
    IF U32Lt(battery_voltage, VREG_VOLTAGE_MIN) THEN VREG_VOLTAGE_MIN
    ELSE IF U32Gt(battery_voltage, VREG_VOLTAGE_MAX) THEN VREG_VOLTAGE_MAX
    ELSE Sub32(battery_voltage, 100)

\* The first lines of every run() with a startup period
startup_or_running(alarm, p) ==
    IF startup_time_remaining(Alarm_elapsed(alarm), p.startup_period) # 0
    THEN CYCLE_STARTUP ELSE CYCLE_RUNNING

\* The result of a run() call: the object's state_code and set_voltage, the
\* regulator's enable pin and set-point when the call returns, the value it
\* returns, and whether it got as far as reading the sensors.
Result(code, sv, on, mv, measured) ==
    [code |-> code, sv |-> sv, on |-> on, mv |-> mv, ret |-> code,
     measured |-> measured]

\* Faulty variant: the target current is looked at before the maximum
Fast_regulate_target_first(sv, p, charging_current, battery_voltage) ==
    LET adj == IF U32Lt(charging_current, p.current_target)
               THEN IF U32Lt(battery_voltage, p.voltage_target)
                    THEN Add32(sv, p.voltage_step)
                    ELSE Sub32(sv, p.voltage_step)
               ELSE IF U32Gt(charging_current, p.current_max)
               THEN Sub32(sv, p.voltage_step)
               ELSE sv
    IN IF U32Gt(adj, VREG_VOLTAGE_MAX) THEN VREG_VOLTAGE_MAX ELSE adj

\* Fast_Charger::run, the regulation step (fast.cpp 67-91)
Fast_regulate(sv, p, charging_current, battery_voltage) ==
    LET adj == IF U32Gt(charging_current, p.current_max)
               THEN Sub32(sv, p.voltage_step)
               ELSE IF U32Lt(charging_current, p.current_target)
               THEN IF U32Lt(battery_voltage, p.voltage_target)
                    THEN Add32(sv, p.voltage_step)
                    ELSE Sub32(sv, p.voltage_step)
               ELSE sv
    IN IF U32Gt(adj, VREG_VOLTAGE_MAX) THEN VREG_VOLTAGE_MAX ELSE adj

\* Faulty variant: the completion check comes before the timeout check
Fast_run_done_first(sv, on, mv, alarm, charging_current, battery_voltage) ==
    LET p == FAST_PARMS
        code == startup_or_running(alarm, p)
        sv2 == Fast_regulate(sv, p, charging_current, battery_voltage)
    IN IF code # CYCLE_STARTUP /\ U32Ge(battery_voltage, p.voltage_target)
       THEN Result(CYCLE_DONE, sv, FALSE, mv, TRUE)
       ELSE IF Alarm_get(alarm) = 0
       THEN Result(CYCLE_TIMEOUT, sv, FALSE, mv, FALSE)
       ELSE Result(code, sv2, on, Vreg_set_voltage(sv2), TRUE)

\* Faulty variant: DONE is returned without stop()
Fast_run_no_stop(sv, on, mv, alarm, charging_current, battery_voltage) ==
    LET p == FAST_PARMS
        code == startup_or_running(alarm, p)
        sv2 == Fast_regulate(sv, p, charging_current, battery_voltage)
    IN IF Alarm_get(alarm) = 0
       THEN Result(CYCLE_TIMEOUT, sv, FALSE, mv, FALSE)
       ELSE IF code # CYCLE_STARTUP /\ U32Ge(battery_voltage, p.voltage_target)
       THEN Result(CYCLE_DONE, sv, on, mv, TRUE)
       ELSE Result(code, sv2, on, Vreg_set_voltage(sv2), TRUE)

\* Fast_Charger::run
Fast_run(sv, on, mv, alarm, charging_current, battery_voltage) ==
    LET p == FAST_PARMS
        code == startup_or_running(alarm, p)
        over == U32Gt(sv, VREG_VOLTAGE_MAX)
        sv1 == IF over THEN VREG_VOLTAGE_MAX ELSE sv
        mv1 == IF over THEN Vreg_set_voltage(sv1) ELSE mv
        sv2 == Fast_regulate(sv1, p, charging_current, battery_voltage)
    IN IF Alarm_get(alarm) = 0
       THEN Result(CYCLE_TIMEOUT, sv, FALSE, mv, FALSE)
       ELSE IF code # CYCLE_STARTUP /\ U32Ge(battery_voltage, p.voltage_target)
       THEN Result(CYCLE_DONE, sv1, FALSE, mv1, TRUE)
       ELSE Result(code, sv2, on, Vreg_set_voltage(sv2), TRUE)

\* Faulty variant: inside the band the set voltage is nudged up
Hysteresis_regulate_no_band(sv, p, charging_current, battery_voltage) ==
    IF U32Gt(charging_current, p.current_max)
    THEN Sub32(sv, p.voltage_step)
    ELSE IF U32Gt(battery_voltage, Add32(p.voltage_target, VOLTS_HYSTERESIS))
    THEN Sub32(sv, p.voltage_step)
    ELSE Add32(sv, p.voltage_step)

\* Topping_Charger::run / Trickle_Charger::run, the regulation step
\* (topping.cpp 60-76, trickle.cpp 54-70): the new set_voltage
Hysteresis_regulate(sv, p, charging_current, battery_voltage) ==
    IF U32Gt(charging_current, p.current_max)
    THEN Sub32(sv, p.voltage_step)
    ELSE IF U32Gt(battery_voltage, Add32(p.voltage_target, VOLTS_HYSTERESIS))
    THEN Sub32(sv, p.voltage_step)
    ELSE IF U32Lt(battery_voltage, Sub32(p.voltage_target, VOLTS_HYSTERESIS))
    THEN Add32(sv, p.voltage_step)
    ELSE sv

\* ... and whether that step writes the regulator
Hysteresis_writes(p, charging_current, battery_voltage) ==
    \/ U32Gt(charging_current, p.current_max)
    \/ U32Gt(battery_voltage, Add32(p.voltage_target, VOLTS_HYSTERESIS))
    \/ U32Lt(battery_voltage, Sub32(p.voltage_target, VOLTS_HYSTERESIS))

\* Faulty variant: the target is reached only strictly below target_current
Topping_run_below(sv, on, mv, alarm, charging_current, battery_voltage) ==
    LET p == TOP_PARMS
        code == startup_or_running(alarm, p)
        sv1 == Hysteresis_regulate(sv, p, charging_current, battery_voltage)
        mv1 == IF Hysteresis_writes(p, charging_current, battery_voltage)
               THEN Vreg_set_voltage(sv1) ELSE mv
    IN IF Alarm_get(alarm) = 0
       THEN Result(CYCLE_TIMEOUT, sv, FALSE, mv, FALSE)
       ELSE IF code # CYCLE_STARTUP /\ U32Lt(charging_current, p.current_target)
       THEN Result(CYCLE_DONE, sv, FALSE, mv, TRUE)
       ELSE Result(code, sv1, on, mv1, TRUE)

\* Faulty variant: a Topping cycle that times out reports an error
Topping_run_error(sv, on, mv, alarm, charging_current, battery_voltage) ==
    LET p == TOP_PARMS
        code == startup_or_running(alarm, p)
        sv1 == Hysteresis_regulate(sv, p, charging_current, battery_voltage)
        mv1 == IF Hysteresis_writes(p, charging_current, battery_voltage)
               THEN Vreg_set_voltage(sv1) ELSE mv
    IN IF Alarm_get(alarm) = 0
       THEN Result(CYCLE_ERROR, sv, FALSE, mv, FALSE)
       ELSE IF code # CYCLE_STARTUP /\ U32Le(charging_current, p.current_target)
       THEN Result(CYCLE_DONE, sv, FALSE, mv, TRUE)
       ELSE Result(code, sv1, on, mv1, TRUE)

\* Topping_Charger::run
Topping_run(sv, on, mv, alarm, charging_current, battery_voltage) ==
    LET p == TOP_PARMS
        code == startup_or_running(alarm, p)
        sv1 == Hysteresis_regulate(sv, p, charging_current, battery_voltage)
        mv1 == IF Hysteresis_writes(p, charging_current, battery_voltage)
               THEN Vreg_set_voltage(sv1) ELSE mv
    IN IF Alarm_get(alarm) = 0
       THEN Result(CYCLE_TIMEOUT, sv, FALSE, mv, FALSE)
       ELSE IF code # CYCLE_STARTUP /\ U32Le(charging_current, p.current_target)
       THEN Result(CYCLE_DONE, sv, FALSE, mv, TRUE)
       ELSE Result(code, sv1, on, mv1, TRUE)

\* Faulty variant: Trickle completes the way Topping does
Trickle_run_completes(sv, on, mv, alarm, charging_current, battery_voltage) ==
    LET p == TRCKL_PARMS
        code == startup_or_running(alarm, p)
        sv1 == Hysteresis_regulate(sv, p, charging_current, battery_voltage)
        mv1 == IF Hysteresis_writes(p, charging_current, battery_voltage)
               THEN Vreg_set_voltage(sv1) ELSE mv
    IN IF Alarm_get(alarm) = 0
       THEN Result(CYCLE_TIMEOUT, sv, FALSE, mv, FALSE)
       ELSE IF code # CYCLE_STARTUP /\ U32Le(charging_current, p.current_target)
       THEN Result(CYCLE_DONE, sv, FALSE, mv, TRUE)
       ELSE Result(code, sv1, on, mv1, TRUE)

\* Trickle_Charger::run
Trickle_run(sv, on, mv, alarm, charging_current, battery_voltage) ==
    LET p == TRCKL_PARMS
        code == startup_or_running(alarm, p)
        sv1 == Hysteresis_regulate(sv, p, charging_current, battery_voltage)
        mv1 == IF Hysteresis_writes(p, charging_current, battery_voltage)
               THEN Vreg_set_voltage(sv1) ELSE mv
    IN IF Alarm_get(alarm) = 0
       THEN Result(CYCLE_TIMEOUT, sv, FALSE, mv, FALSE)
       ELSE Result(code, sv1, on, mv1, TRUE)

\* Faulty variant: the regulator is switched off only when Standby times out
Standby_run_off_late(sv, on, mv, alarm, charging_current, battery_voltage) ==
    IF Alarm_get(alarm) = 0
    THEN Result(CYCLE_TIMEOUT, sv, FALSE, mv, FALSE)
    ELSE Result(CYCLE_RUNNING, sv, on, mv, FALSE)

\* Standby_Charger::run (it reads no sensor before returning its code)
Standby_run(sv, on, mv, alarm, charging_current, battery_voltage) ==
    IF Alarm_get(alarm) = 0
    THEN Result(CYCLE_TIMEOUT, sv, FALSE, mv, FALSE)
    ELSE Result(CYCLE_RUNNING, sv, FALSE, mv, FALSE)

\* Virtual dispatch of run()
Run(ph, sv, on, mv, alarm, charging_current, battery_voltage) ==
    CASE ph = fast_charger ->
           Fast_run(sv, on, mv, alarm, charging_current, battery_voltage)
      [] ph = topping_charger ->
           Topping_run(sv, on, mv, alarm, charging_current, battery_voltage)
      [] ph = trickle_charger ->
           Trickle_run(sv, on, mv, alarm, charging_current, battery_voltage)
      [] ph = standby_charger ->
           Standby_run(sv, on, mv, alarm, charging_current, battery_voltage)

----------------------------------------------------------------------------
\* The display timer of a phase object and the Alarm_Pool::add call in
\* progress, before anything has happened

\* display_timer is 0 in the objects of main.cpp, which have static storage
\* and a constructor that does not assign it; millis() is 0 at reset
NoDisplay == [ph \in Phases |-> [since |-> 0, shown |-> FALSE]]

\* No add() call is in progress
NotAdding ==
    [ph |-> "none", period |-> 0, todo |-> {}, base |-> 0,
     slot |-> [period |-> 0, timer |-> 0]]

----------------------------------------------------------------------------
\* The objects a call works on, as one record

World ==
    [state_code |-> state_code, set_voltage |-> set_voltage,
     charge_timer_id |-> charge_timer_id, since_start |-> since_start,
     pool |-> pool, enable_port |-> enable_port, vreg_mv |-> vreg_mv]

CommitWorld(w) ==
    /\ state_code' = w.state_code
    /\ set_voltage' = w.set_voltage
    /\ charge_timer_id' = w.charge_timer_id
    /\ since_start' = w.since_start
    /\ pool' = w.pool
    /\ enable_port' = w.enable_port
    /\ vreg_mv' = w.vreg_mv

Commit(w) ==
    /\ CommitWorld(w)
    /\ UNCHANGED << rb, rb_log, out, display, adding >>

\* Charge_Cycle::start
Charge_Cycle_start(w, ph, battery_voltage) ==
    [w EXCEPT !.state_code[ph] = CYCLE_STARTUP,
              !.set_voltage[ph] = start_set_voltage(battery_voltage),
              !.vreg_mv = Vreg_set_voltage(start_set_voltage(battery_voltage)),
              !.enable_port = TRUE,
              !.pool = Alarm_Pool_add_pool(w.pool, Parms(ph).charge_period_max),
              !.charge_timer_id[ph] = Alarm_Pool_add_id(w.pool),
              !.since_start[ph] = 0]

\* Faulty variant: init() leaves the regulator as it is
Charge_Cycle_init_on(w, ph) ==
    [w EXCEPT !.state_code[ph] = CYCLE_INIT, !.set_voltage[ph] = 0]

\* Charge_Cycle::init (the parameters it loads are Parms(ph))
Charge_Cycle_init(w, ph) ==
    [w EXCEPT !.state_code[ph] = CYCLE_INIT, !.set_voltage[ph] = 0,
              !.enable_port = FALSE]

\* Faulty variant: stop() also resets the regulator's set-point
Charge_Cycle_stop_resets(w) ==
    [w EXCEPT !.enable_port = FALSE, !.vreg_mv = VREG_VOLTAGE_MIN]

\* Charge_Cycle::stop
Charge_Cycle_stop(w) == [w EXCEPT !.enable_port = FALSE]

\* The alarm a phase's timer_pool.get / timer_pool.elapsed calls read
CycleAlarm(w, ph, oob) == PoolSlot(w.pool, w.charge_timer_id[ph], oob)

\* phase.run() on the world w
CallRun(w, ph, oob, charging_current, battery_voltage) ==
    Run(ph, w.set_voltage[ph], w.enable_port, w.vreg_mv, CycleAlarm(w, ph, oob),
        charging_current, battery_voltage)

\* Faulty variant: run() returns its code without storing it in state_code
AfterRun_code_lost(w, ph, r) ==
    [w EXCEPT !.set_voltage[ph] = r.sv, !.enable_port = r.on, !.vreg_mv = r.mv]

\* The world when that run() returns
AfterRun(w, ph, r) ==
    [w EXCEPT !.state_code[ph] = r.code, !.set_voltage[ph] = r.sv,
              !.enable_port = r.on, !.vreg_mv = r.mv]

\* The record of a step: the phase whose run() it called, that phase's
\* state_code when the call was made and the code that returned ("none": no
\* run() call), the battery voltage the supervisor itself read to choose the
\* next phase (0: none read), and the phase it started ("none": no start()
\* call)
StepInfo(op, ph, from, ret, voltage, started) ==
    [op |-> op, phase |-> ph, from |-> from, ret |-> ret, voltage |-> voltage,
     started |-> started]

----------------------------------------------------------------------------
\* The supervisor switch of loop(): for the code a phase's run() returned, the
\* next charger_state and the phase to start ("none": no start() call)

Go(state, start) == [state |-> state, start |-> start]

\* Faulty variant: the threshold is the Trickle target voltage
Startup_next_trickle_target(battery_voltage) ==
    IF battery_voltage <= TRCKL_PARMS.voltage_target
    THEN Go(CHARGER_FAST, fast_charger)
    ELSE Go(CHARGER_TOPPING, topping_charger)

\* Faulty variant: the comparison with the threshold is reversed
Startup_next_reversed(battery_voltage) ==
    IF battery_voltage >= BATTERY_DISCHARGED_MV
    THEN Go(CHARGER_FAST, fast_charger)
    ELSE Go(CHARGER_TOPPING, topping_charger)

\* case CHARGER_STARTUP
Startup_next(battery_voltage) ==
    IF battery_voltage <= BATTERY_DISCHARGED_MV
    THEN Go(CHARGER_FAST, fast_charger)
    ELSE Go(CHARGER_TOPPING, topping_charger)

\* Faulty variant: a Fast cycle that timed out is taken as completed
Fast_next_timeout_done(ret) ==
    CASE ret \in {CYCLE_STARTUP, CYCLE_RUNNING} -> Go(CHARGER_FAST, "none")
      [] ret \in {CYCLE_DONE, CYCLE_TIMEOUT} ->
           Go(CHARGER_TOPPING, topping_charger)
      [] OTHER -> Go(CHARGER_SHUTDOWN, "none")

\* case CHARGER_FAST
Fast_next(ret) ==
    CASE ret \in {CYCLE_STARTUP, CYCLE_RUNNING} -> Go(CHARGER_FAST, "none")
      [] ret = CYCLE_DONE -> Go(CHARGER_TOPPING, topping_charger)
      [] ret = CYCLE_TIMEOUT -> Go(CHARGER_SHUTDOWN, "none")
      [] ret = CYCLE_ERROR -> Go(CHARGER_SHUTDOWN, "none")
      [] OTHER -> Go(CHARGER_SHUTDOWN, "none")

\* Faulty variant: DONE moves on to TRICKLE without starting the Trickle cycle
Topping_next_no_start(ret) ==
    CASE ret \in {CYCLE_STARTUP, CYCLE_RUNNING} -> Go(CHARGER_TOPPING, "none")
      [] ret = CYCLE_DONE -> Go(CHARGER_TRICKLE, "none")
      [] OTHER -> Go(CHARGER_SHUTDOWN, "none")

\* case CHARGER_TOPPING
Topping_next(ret) ==
    CASE ret \in {CYCLE_STARTUP, CYCLE_RUNNING} -> Go(CHARGER_TOPPING, "none")
      [] ret = CYCLE_DONE -> Go(CHARGER_TRICKLE, trickle_charger)
      [] ret = CYCLE_TIMEOUT -> Go(CHARGER_SHUTDOWN, "none")
      [] ret = CYCLE_ERROR -> Go(CHARGER_SHUTDOWN, "none")
      [] OTHER -> Go(CHARGER_SHUTDOWN, "none")

\* Faulty variant: a Trickle TIMEOUT is an error, as it is for Fast and Topping
Trickle_next_timeout_error(ret) ==
    CASE ret \in {CYCLE_STARTUP, CYCLE_RUNNING} -> Go(CHARGER_TRICKLE, "none")
      [] ret = CYCLE_DONE -> Go(CHARGER_STANDBY, standby_charger)
      [] OTHER -> Go(CHARGER_SHUTDOWN, "none")

\* case CHARGER_TRICKLE
Trickle_next(ret) ==
    CASE ret \in {CYCLE_STARTUP, CYCLE_RUNNING} -> Go(CHARGER_TRICKLE, "none")
      [] ret \in {CYCLE_DONE, CYCLE_TIMEOUT} -> Go(CHARGER_STANDBY, standby_charger)
      [] ret = CYCLE_ERROR -> Go(CHARGER_SHUTDOWN, "none")
      [] OTHER -> Go(CHARGER_SHUTDOWN, "none")

\* Faulty variant: after Standby a battery that is not discharged goes to
\* Topping
Standby_next_topping(ret, battery_average) ==
    CASE ret = CYCLE_RUNNING -> Go(CHARGER_STANDBY, "none")
      [] ret = CYCLE_TIMEOUT ->
           IF battery_average <= BATTERY_DISCHARGED_MV
           THEN Go(CHARGER_FAST, fast_charger)
           ELSE Go(CHARGER_TOPPING, topping_charger)
      [] OTHER -> Go(CHARGER_SHUTDOWN, "none")

\* case CHARGER_STANDBY
Standby_next(ret, battery_average) ==
    CASE ret = CYCLE_RUNNING -> Go(CHARGER_STANDBY, "none")
      [] ret = CYCLE_TIMEOUT ->
           IF battery_average <= BATTERY_DISCHARGED_MV
           THEN Go(CHARGER_FAST, fast_charger)
           ELSE Go(CHARGER_TRICKLE, trickle_charger)
      [] OTHER -> Go(CHARGER_SHUTDOWN, "none")

\* The world after the supervisor has acted on `go`
AfterSwitch(w, go, start_voltage) ==
    IF go.start = "none" THEN w
    ELSE Charge_Cycle_start(w, go.start, start_voltage)

----------------------------------------------------------------------------
\* Initial state: after setup()

Init ==
    /\ charger_state = CHARGER_STARTUP
    /\ state_code = [ph \in Phases |-> CYCLE_INIT]
    /\ set_voltage = [ph \in Phases |-> 0]
    /\ charge_timer_id = [ph \in Phases |-> 0]
    /\ since_start = [ph \in Phases |-> 0]
    /\ pool = << >>
    /\ enable_port = FALSE
    /\ vreg_mv = VREG_VOLTAGE_MIN
    /\ loop_elapsed = 0
    /\ last = StepInfo("none", "none", "none", "none", 0, "none")
    /\ rb = RingBuffer16_init(RingSize, [i \in 0..(RingSize - 1) |-> 0])
    /\ rb_log = [appended |-> << >>, read |-> FALSE]
    /\ out = [arg |-> 0, chars |-> << >>]
    /\ display = NoDisplay
    /\ adding = NotAdding

\* The time since start() is counted up to MaxOverrun ticks past the cycle's
\* charge_period_max, and a cycle that is still going then is followed no
\* further
Overdue(ph) == Parms(ph).charge_period_max + MaxOverrun

\* timer_pool_handler, once per millisecond; millis() advances with it
\* (the clocks of the supervisor and of the cycles; the pool is counted
\* down by Alarm_Pool::dec)
TickClocks ==
    /\ loop_elapsed' = IF loop_elapsed < LoopDelay THEN loop_elapsed + 1
                       ELSE loop_elapsed
    /\ since_start' =
         [ph \in Phases |->
            IF state_code[ph] # CYCLE_INIT /\ since_start[ph] < Overdue(ph)
            THEN since_start[ph] + 1 ELSE since_start[ph]]
    /\ UNCHANGED << charger_state, state_code, set_voltage, charge_timer_id,
                    enable_port, vreg_mv, last >>

Tick ==
    /\ pool' = Alarm_Pool_dec(pool)
    /\ TickClocks
    /\ UNCHANGED << rb, rb_log, out, display, adding >>

\* loop(): if ((millis() - loop_timer) >= LOOP_DELAY) { loop_timer = millis(); ...
\* (loop() is not called again once it spins in the while (1) of its default
\* case)
Halted == last.op = "halt"
LoopDue == loop_elapsed >= LoopDelay /\ ~Halted

\* The inputs a call reads.  A phase reads memory outside the pool only when
\* its charge_timer_id is no index of the array; run() reads the sensors only
\* when the countdown has not expired (and Standby never does); the supervisor
\* reads the averaged battery voltage only when Standby timed out; start()
\* reads the battery voltage.
NoReading == {0}

OobInputs(w, ph) ==
    IF w.charge_timer_id[ph] \in 1..STM32_TIME_MAX_ALARMS
    THEN {[period |-> 0, timer |-> 0]} ELSE OutOfBoundsAlarms

CurrentInputs(in, w, ph, oob) ==
    IF ph = standby_charger \/ Alarm_get(CycleAlarm(w, ph, oob)) = 0
    THEN NoReading ELSE in.currents

VoltageInputs(in, w, ph, oob) ==
    IF ph = standby_charger \/ Alarm_get(CycleAlarm(w, ph, oob)) = 0
    THEN NoReading ELSE in.voltages

AverageInputs(in, ph, r) ==
    IF ph = standby_charger /\ r.ret = CYCLE_TIMEOUT
    THEN in.averages ELSE NoReading

StartInputs(in, go) == IF go.start = "none" THEN NoReading ELSE in.voltages

\* A run() call that leaves the cycle going
Continues(r) == r.ret \in {CYCLE_STARTUP, CYCLE_RUNNING}

\* The cap on the number of start() calls
MayStart(in, go) ==
    go.start = "none" \/ ~in.capped \/ Len(pool) < MaxStarts

\* The switch of the case that runs phase ph
Switch(ph, ret, battery_average) ==
    CASE ph = fast_charger -> Fast_next(ret)
      [] ph = topping_charger -> Topping_next(ret)
      [] ph = trickle_charger -> Trickle_next(ret)
      [] ph = standby_charger -> Standby_next(ret, battery_average)

\* loop(), case CHARGER_STARTUP
StartupWith(voltages, start_voltages) ==
    /\ LoopDue
    /\ charger_state = CHARGER_STARTUP
    /\ \E battery_voltage \in voltages :
         LET go == Startup_next(battery_voltage)
         IN \E start_voltage \in start_voltages :
              /\ Commit(AfterSwitch(World, go, start_voltage))
              /\ charger_state' = go.state
              /\ last' = StepInfo("startup", "none", "none", "none",
                                   battery_voltage, go.start)
    /\ loop_elapsed' = 0

\* loop(), the cases that run a phase: run() and the switch on its result
PhaseStep(in, state, ph) ==
    /\ LoopDue
    /\ charger_state = state
    /\ \E oob \in OobInputs(World, ph) :
       \E charging_current \in CurrentInputs(in, World, ph, oob) :
       \E battery_voltage \in VoltageInputs(in, World, ph, oob) :
         LET r == CallRun(World, ph, oob, charging_current, battery_voltage)
         IN /\ Continues(r) => since_start[ph] < Overdue(ph)
            /\ \E battery_average \in AverageInputs(in, ph, r) :
                 LET go == Switch(ph, r.ret, battery_average)
                 IN \E start_voltage \in StartInputs(in, go) :
                      /\ MayStart(in, go)
                      /\ Commit(AfterSwitch(AfterRun(World, ph, r), go,
                                            start_voltage))
                      /\ charger_state' = go.state
                      /\ last' = StepInfo("run", ph, state_code[ph], r.ret,
                                           battery_average, go.start)
    /\ loop_elapsed' = 0

StartupOn(in) == StartupWith(in.voltages, in.voltages)

StartupStep == StartupOn(AllInputs)
FastStep == PhaseStep(AllInputs, CHARGER_FAST, fast_charger)
ToppingStep == PhaseStep(AllInputs, CHARGER_TOPPING, topping_charger)
TrickleStep == PhaseStep(AllInputs, CHARGER_TRICKLE, trickle_charger)
StandbyStep == PhaseStep(AllInputs, CHARGER_STANDBY, standby_charger)

SteadyStartupStep == StartupOn(SteadyInputs)
SteadyFastStep == PhaseStep(SteadyInputs, CHARGER_FAST, fast_charger)
SteadyToppingStep == PhaseStep(SteadyInputs, CHARGER_TOPPING, topping_charger)
SteadyTrickleStep == PhaseStep(SteadyInputs, CHARGER_TRICKLE, trickle_charger)
SteadyStandbyStep == PhaseStep(SteadyInputs, CHARGER_STANDBY, standby_charger)

\* Faulty variant: the supervisor retries Fast charging from SHUTDOWN
ShutdownStep_retry ==
    /\ LoopDue
    /\ charger_state = CHARGER_SHUTDOWN
    /\ loop_elapsed' = 0
    /\ IF Len(pool) < MaxStarts
       THEN /\ \E start_voltage \in BatteryVoltages :
                 Commit(Charge_Cycle_start(World, fast_charger, start_voltage))
            /\ charger_state' = CHARGER_FAST
            /\ last' = StepInfo("shutdown", "none", "none", "none", 0,
                                 fast_charger)
       ELSE /\ last' = StepInfo("shutdown", "none", "none", "none", 0, "none")
            /\ UNCHANGED << rb, rb_log, out, display, adding,
                    charger_state, state_code, set_voltage,
                            charge_timer_id, since_start, pool, enable_port,
                            vreg_mv >>

\* loop(), case CHARGER_SHUTDOWN
ShutdownStep ==
    /\ LoopDue
    /\ charger_state = CHARGER_SHUTDOWN
    /\ loop_elapsed' = 0
    /\ last' = StepInfo("shutdown", "none", "none", "none", 0, "none")
    /\ UNCHANGED << rb, rb_log, out, display, adding,
                    charger_state, state_code, set_voltage, charge_timer_id,
                    since_start, pool, enable_port, vreg_mv >>

Next ==
    \/ Tick
    \/ StartupStep
    \/ FastStep
    \/ ToppingStep
    \/ TrickleStep
    \/ StandbyStep
    \/ ShutdownStep

\* The charger with every modelled reading, up to MaxStarts cycles
Spec == Init /\ [][Next]_vars

\* loop(), case CHARGER_LOAD_TEST
LoadTestStep ==
    /\ LoopDue
    /\ charger_state = CHARGER_LOAD_TEST
    /\ loop_elapsed' = 0
    /\ last' = StepInfo("load_test", "none", "none", "none", 0, "none")
    /\ UNCHANGED << rb, rb_log, out, display, adding,
                    charger_state, state_code, set_voltage, charge_timer_id,
                    since_start, pool, enable_port, vreg_mv >>

\* The values of charger_state that have a case in loop()
CaseStates ==
    {CHARGER_STARTUP, CHARGER_FAST, CHARGER_TOPPING, CHARGER_TRICKLE,
     CHARGER_STANDBY, CHARGER_SHUTDOWN, CHARGER_LOAD_TEST}

\* Faulty variant: the default case restarts the supervisor
DefaultStep_restart ==
    /\ LoopDue
    /\ charger_state \notin CaseStates
    /\ loop_elapsed' = 0
    /\ charger_state' = CHARGER_STARTUP
    /\ last' = StepInfo("default", "none", "none", "none", 0, "none")
    /\ UNCHANGED << rb, rb_log, out, display, adding,
                    state_code, set_voltage, charge_timer_id, since_start,
                    pool, enable_port, vreg_mv >>

\* loop(), default case: while (1);
DefaultStep ==
    /\ LoopDue
    /\ charger_state \notin CaseStates
    /\ loop_elapsed' = 0
    /\ last' = StepInfo("halt", "none", "none", "none", 0, "none")
    /\ UNCHANGED << rb, rb_log, out, display, adding,
                    charger_state, state_code, set_voltage, charge_timer_id,
                    since_start, pool, enable_port, vreg_mv >>

EnduranceNext ==
    \/ Tick
    \/ SteadyStartupStep
    \/ SteadyFastStep
    \/ SteadyToppingStep
    \/ SteadyTrickleStep
    \/ SteadyStandbyStep
    \/ ShutdownStep

\* The charger left on one battery, for any number of cycles
EnduranceSpec == Init /\ [][EnduranceNext]_vars

\* loop() entered with charger_state at STARTUP, as setup() leaves it, or at
\* one of the values of charger_state_t that no statement assigns
AnyStateInit ==
    /\ charger_state \in {CHARGER_STARTUP, CHARGER_MENU, CHARGER_LOAD_TEST,
                           CHARGER_CONDITION}
    /\ state_code = [ph \in Phases |-> CYCLE_INIT]
    /\ set_voltage = [ph \in Phases |-> 0]
    /\ charge_timer_id = [ph \in Phases |-> 0]
    /\ since_start = [ph \in Phases |-> 0]
    /\ pool = << >>
    /\ enable_port = FALSE
    /\ vreg_mv = VREG_VOLTAGE_MIN
    /\ loop_elapsed = 0
    /\ last = StepInfo("none", "none", "none", "none", 0, "none")
    /\ rb = RingBuffer16_init(RingSize, [i \in 0..(RingSize - 1) |-> 0])
    /\ rb_log = [appended |-> << >>, read |-> FALSE]
    /\ out = [arg |-> 0, chars |-> << >>]
    /\ display = NoDisplay
    /\ adding = NotAdding

AnyStateNext ==
    \/ Tick
    \/ SteadyStartupStep
    \/ SteadyFastStep
    \/ SteadyToppingStep
    \/ SteadyTrickleStep
    \/ SteadyStandbyStep
    \/ ShutdownStep
    \/ LoadTestStep
    \/ DefaultStep

AnyStateSpec == AnyStateInit /\ [][AnyStateNext]_vars

----------------------------------------------------------------------------
\* The phase objects driven directly: start() and run() of any phase, in any
\* order, with every modelled reading.  run() is called on a phase that has
\* been started, at most once per LoopDelay ticks.

HarnessStart(ph) ==
    /\ Len(pool) < MaxHarnessStarts
    /\ \E start_voltage \in BatteryVoltages :
         Commit(Charge_Cycle_start(World, ph, start_voltage))
    /\ last' = StepInfo("start", "none", "none", "none", 0, ph)
    /\ UNCHANGED << charger_state, loop_elapsed >>

HarnessRun(ph) ==
    /\ LoopDue
    /\ state_code[ph] # CYCLE_INIT
    /\ \E oob \in OobInputs(World, ph) :
       \E charging_current \in CurrentInputs(AllInputs, World, ph, oob) :
       \E battery_voltage \in VoltageInputs(AllInputs, World, ph, oob) :
         LET r == CallRun(World, ph, oob, charging_current, battery_voltage)
         IN /\ Continues(r) => since_start[ph] < Overdue(ph)
            /\ Commit(AfterRun(World, ph, r))
            /\ last' = StepInfo("run", ph, state_code[ph], r.ret, 0, "none")
    /\ loop_elapsed' = 0
    /\ UNCHANGED charger_state

HarnessStartAny == \E ph \in Phases : HarnessStart(ph)
HarnessRunAny == \E ph \in Phases : HarnessRun(ph)

HarnessNext ==
    \/ Tick
    \/ HarnessStartAny
    \/ HarnessRunAny

HarnessSpec == Init /\ [][HarnessNext]_vars

----------------------------------------------------------------------------
\* The whole interface of a phase object driven directly: init(), start(),
\* run() and stop() of any phase, in any order.  start() is called at a battery
\* reading inside the regulator's range and at the readings at its two ends;
\* run() reads the steady sensors.  One phase object at a time is taken out of
\* INIT.

LifecycleAdcCounts == {1266, 3545, 4070}
LifecycleVoltages == {get_voltage_mV(a) : a \in LifecycleAdcCounts}

LifecycleInit(ph) ==
    /\ Commit(Charge_Cycle_init(World, ph))
    /\ last' = StepInfo("init", ph, state_code[ph], "none", 0, "none")
    /\ UNCHANGED << charger_state, loop_elapsed >>

LifecycleStart(ph) ==
    /\ Len(pool) < MaxLifecycleStarts
    /\ \A other \in Phases \ {ph} : state_code[other] = CYCLE_INIT
    /\ \E start_voltage \in LifecycleVoltages :
         /\ Commit(Charge_Cycle_start(World, ph, start_voltage))
         /\ last' = StepInfo("start", ph, state_code[ph], "none",
                              start_voltage, ph)
    /\ UNCHANGED << charger_state, loop_elapsed >>

LifecycleRun(ph) ==
    /\ LoopDue
    /\ state_code[ph] # CYCLE_INIT
    /\ \E oob \in OobInputs(World, ph) :
       \E charging_current \in CurrentInputs(SteadyInputs, World, ph, oob) :
       \E battery_voltage \in VoltageInputs(SteadyInputs, World, ph, oob) :
         LET r == CallRun(World, ph, oob, charging_current, battery_voltage)
         IN /\ Continues(r) => since_start[ph] < Overdue(ph)
            /\ Commit(AfterRun(World, ph, r))
            /\ last' = StepInfo("run", ph, state_code[ph], r.ret, 0, "none")
    /\ loop_elapsed' = 0
    /\ UNCHANGED charger_state

LifecycleStop(ph) ==
    /\ Commit(Charge_Cycle_stop(World))
    /\ last' = StepInfo("stop", ph, state_code[ph], "none", 0, "none")
    /\ UNCHANGED << charger_state, loop_elapsed >>

LifecycleInitAny == \E ph \in Phases : LifecycleInit(ph)
LifecycleStartAny == \E ph \in Phases : LifecycleStart(ph)
LifecycleRunAny == \E ph \in Phases : LifecycleRun(ph)
LifecycleStopAny == \E ph \in Phases : LifecycleStop(ph)

LifecycleNext ==
    \/ Tick
    \/ LifecycleInitAny
    \/ LifecycleStartAny
    \/ LifecycleRunAny
    \/ LifecycleStopAny

LifecycleSpec == Init /\ [][LifecycleNext]_vars

----------------------------------------------------------------------------
\* Power-up with the battery pin at any count of the 12-bit A/D converter:
\* the STARTUP case of loop() on every reading get_voltage_mV() can return
\* (start() then reads the steady battery voltage), and the ticks after it.

EveryAdcCount == 0..(AN_READ_MAX - 1)
EveryBatteryVoltage == {get_voltage_mV(a) : a \in EveryAdcCount}

PowerUpStep == StartupWith(EveryBatteryVoltage, SteadyVoltages)

PowerUpNext == Tick \/ PowerUpStep

PowerUpSpec == Init /\ [][PowerUpNext]_vars

----------------------------------------------------------------------------
\* A RingBuffer16 of RingSize entries driven directly: append(), get() and
\* overflow() in any order, up to MaxAppends samples.

Samples == {1, 2}

\* new uint16_t[entries] does not initialise the array
RingInit ==
    /\ charger_state = CHARGER_STARTUP
    /\ state_code = [ph \in Phases |-> CYCLE_INIT]
    /\ set_voltage = [ph \in Phases |-> 0]
    /\ charge_timer_id = [ph \in Phases |-> 0]
    /\ since_start = [ph \in Phases |-> 0]
    /\ pool = << >>
    /\ enable_port = FALSE
    /\ vreg_mv = VREG_VOLTAGE_MIN
    /\ loop_elapsed = 0
    /\ last = StepInfo("none", "none", "none", "none", 0, "none")
    /\ \E memory \in [0..(RingSize - 1) -> {0, 2}] :
         rb = RingBuffer16_init(RingSize, memory)
    /\ rb_log = [appended |-> << >>, read |-> FALSE]
    /\ out = [arg |-> 0, chars |-> << >>]
    /\ display = NoDisplay
    /\ adding = NotAdding

BoolName(b) == IF b THEN "true" ELSE "false"

RingIdle ==
    UNCHANGED << charger_state, state_code, set_voltage, charge_timer_id,
                 since_start, pool, enable_port, vreg_mv, loop_elapsed, out,
                 display, adding >>

RingAppend ==
    /\ Len(rb_log.appended) < MaxAppends
    /\ \E entry \in Samples :
         /\ rb' = RingBuffer16_append(rb, entry)
         /\ rb_log' = [rb_log EXCEPT !.appended = Append(@, entry)]
         /\ last' = StepInfo("append", "none", "none", "none", entry, "none")
    /\ RingIdle

RingGet ==
    /\ rb' = RingBuffer16_get(rb)
    /\ rb_log' = [rb_log EXCEPT
                    !.read = @ \/ RingBuffer16_available(rb) # 0]
    /\ last' = StepInfo("get", "none", "none", "none",
                         RingBuffer16_get_entry(rb), "none")
    /\ RingIdle

RingOverflow ==
    /\ rb' = RingBuffer16_overflow(rb)
    /\ last' = StepInfo("overflow", "none", "none",
                         BoolName(RingBuffer16_overflow_value(rb)), 0, "none")
    /\ UNCHANGED rb_log
    /\ RingIdle

RingNext == RingAppend \/ RingGet \/ RingOverflow

RingSpec == RingInit /\ [][RingNext]_vars

----------------------------------------------------------------------------
\* rb_charging_current as the program uses it: built with
\* RB_CHARGING_CURRENT_SAMPLES entries, appended to by every pass of the
\* supervisor, and read with average() by the status message.  The memory
\* new[] hands out is not initialised.

CurrentRingInit ==
    /\ charger_state = CHARGER_STARTUP
    /\ state_code = [ph \in Phases |-> CYCLE_INIT]
    /\ set_voltage = [ph \in Phases |-> 0]
    /\ charge_timer_id = [ph \in Phases |-> 0]
    /\ since_start = [ph \in Phases |-> 0]
    /\ pool = << >>
    /\ enable_port = FALSE
    /\ vreg_mv = VREG_VOLTAGE_MIN
    /\ loop_elapsed = 0
    /\ last = StepInfo("none", "none", "none", "none", 0, "none")
    /\ \E fill \in {0, 7} :
         rb = RingBuffer16_init(RB_CHARGING_CURRENT_SAMPLES,
                                [i \in 0..(RB_CHARGING_CURRENT_SAMPLES - 1)
                                   |-> fill])
    /\ rb_log = [appended |-> << >>, read |-> FALSE]
    /\ out = [arg |-> 0, chars |-> << >>]
    /\ display = NoDisplay
    /\ adding = NotAdding

\* loop(): rb_charging_current.append(vreg.get_current_average_mA())
CurrentRingAppend ==
    /\ Len(rb_log.appended) < MaxCurrentSamples
    /\ \E entry \in {275, 500} :
         /\ rb' = RingBuffer16_append(rb, entry)
         /\ rb_log' = [rb_log EXCEPT !.appended = Append(@, entry)]
         /\ last' = StepInfo("append", "none", "none", "none", entry, "none")
    /\ RingIdle

\* status_message(): rb_charging_current.average()
CurrentRingAverage ==
    /\ last' = StepInfo("average", "none", "none", "none",
                         RingBuffer16_average(rb), "none")
    /\ UNCHANGED << rb, rb_log >>
    /\ RingIdle

CurrentRingNext == CurrentRingAppend \/ CurrentRingAverage

CurrentRingSpec == CurrentRingInit /\ [][CurrentRingNext]_vars

----------------------------------------------------------------------------
\* Alarm_Pool::add, called from start(), store by store, with the tick
\* interrupt between any two stores.  add() copies the new alarm into
\* pool[entries] and increments entries; neither is volatile or fenced, so
\* the build may order the stores of period, timer and entries in any way.
\* A slot of pool[] that was never used holds a default alarm (period 0,
\* timer 0).

AddStores == {"period", "timer", "entries"}

\* start() up to the call of add(), and add() up to its stores
AddBegin(ph) ==
    /\ adding.ph = "none"
    /\ Len(pool) < MaxAddStarts
    /\ Len(pool) < STM32_TIME_MAX_ALARMS
    /\ \E start_voltage \in SteadyVoltages :
         LET w == Charge_Cycle_start(World, ph, start_voltage)
         IN CommitWorld([w EXCEPT !.pool = pool,
                                  !.charge_timer_id = charge_timer_id,
                                  !.since_start = since_start])
    /\ adding' = [ph |-> ph, period |-> Parms(ph).charge_period_max,
                  todo |-> AddStores, base |-> Len(pool),
                  slot |-> [period |-> 0, timer |-> 0]]
    /\ UNCHANGED << charger_state, loop_elapsed, last, rb, rb_log, out,
                    display >>

\* One store of add(): a field of pool[entries], or entries itself
AddStore(field) ==
    /\ adding.ph # "none"
    /\ field \in adding.todo
    /\ LET value == adding.period
           visible == "entries" \notin adding.todo
           written(a) == IF field = "period" THEN [a EXCEPT !.period = value]
                         ELSE [a EXCEPT !.timer = value]
       IN IF field = "entries"
          THEN /\ pool' = Append(pool, adding.slot)
               /\ adding' = [adding EXCEPT !.todo = @ \ {field}]
          ELSE IF visible
          THEN /\ pool' = [pool EXCEPT ![adding.base + 1] = written(@)]
               /\ adding' = [adding EXCEPT !.todo = @ \ {field}]
          ELSE /\ pool' = pool
               /\ adding' = [adding EXCEPT !.todo = @ \ {field},
                                           !.slot = written(@)]
    /\ UNCHANGED << charger_state, state_code, set_voltage, charge_timer_id,
                    since_start, enable_port, vreg_mv, loop_elapsed, last, rb,
                    rb_log, out, display >>

\* return entries; and the rest of start()
AddReturn ==
    /\ adding.ph # "none"
    /\ adding.todo = {}
    /\ charge_timer_id' = [charge_timer_id EXCEPT ![adding.ph] = Len(pool)]
    /\ since_start' = [since_start EXCEPT ![adding.ph] = 0]
    /\ last' = StepInfo("start", "none", "none", "none", 0, adding.ph)
    /\ adding' = NotAdding
    /\ UNCHANGED << charger_state, state_code, set_voltage, pool, enable_port,
                    vreg_mv, loop_elapsed, rb, rb_log, out, display >>

\* The tick: Alarm_Pool::dec on the array as it is at that moment
AddTick ==
    /\ LET pending == adding.ph # "none" /\ "entries" \in adding.todo
           mem == IF pending THEN Append(pool, adding.slot) ELSE pool
           after == Alarm_Pool_dec_memory(mem, Len(pool))
       IN /\ pool' = SubSeq(after, 1, Len(pool))
          /\ adding' = IF pending
                       THEN [adding EXCEPT !.slot = after[Len(pool) + 1]]
                       ELSE adding
    /\ TickClocks
    /\ UNCHANGED << rb, rb_log, out, display >>

AddBeginAny == \E ph \in Phases : AddBegin(ph)
AddStoreAny == \E field \in AddStores : AddStore(field)

AddNext ==
    \/ AddTick
    \/ AddBeginAny
    \/ AddStoreAny
    \/ AddReturn

AddSpec == Init /\ [][AddNext]_vars

----------------------------------------------------------------------------
\* A cycle that stays in over-current.  A cycle of the program lasts hours
\* and run() is called every LOOP_DELAY (100 ms): 144,000 calls in the four
\* hours of FAST_PARMS.  Here a regulating cycle is started on a battery that
\* reads 0 mV, with a charge period long enough for DrainRuns calls, and
\* every call reads 700 mA, above current_max.  The supervisor makes the call
\* as soon as it is due.

RegulatingPhases == {fast_charger, topping_charger, trickle_charger}

DrainStart(ph) ==
    /\ pool = << >>
    /\ LET w == Charge_Cycle_start(World, ph, get_voltage_mV(0))
       IN Commit([w EXCEPT !.pool =
                    Alarm_Pool_add_pool(pool, DrainRuns * LoopDelay)])
    /\ last' = StepInfo("start", "none", "none", "none", 0, ph)
    /\ UNCHANGED << charger_state, loop_elapsed >>

DrainRun(ph) ==
    /\ LoopDue
    /\ state_code[ph] \in {CYCLE_STARTUP, CYCLE_RUNNING}
    /\ \E oob \in OobInputs(World, ph) :
         LET r == CallRun(World, ph, oob, 700, get_voltage_mV(0))
         IN /\ Commit(AfterRun(World, ph, r))
            /\ last' = StepInfo("run", ph, state_code[ph], r.ret, 0, "none")
    /\ loop_elapsed' = 0
    /\ UNCHANGED charger_state

DrainTick == ~LoopDue /\ Tick

DrainStartAny == \E ph \in RegulatingPhases : DrainStart(ph)
DrainRunAny == \E ph \in RegulatingPhases : DrainRun(ph)

DrainNext ==
    \/ DrainTick
    \/ DrainStartAny
    \/ DrainRunAny

DrainSpec == Init /\ [][DrainNext]_vars

----------------------------------------------------------------------------
\* The Topping and Trickle cycles called directly on battery readings at the
\* edges of their hysteresis bands: the readings next to
\* target_voltage - VOLTS_HYSTERESIS and target_voltage + VOLTS_HYSTERESIS of
\* TRCKL_PARMS (13398, 13402, 13599, 13603 mV) and of TOP_PARMS (13896, 13900,
\* 14097, 14101 mV).

HysteresisPhases == {topping_charger, trickle_charger}

BandAdcCounts == {3392, 3393, 3443, 3444, 3518, 3519, 3569, 3570}
BandVoltages == {get_voltage_mV(a) : a \in BandAdcCounts}

BandInputs ==
    [currents |-> ChargingCurrents, voltages |-> BandVoltages,
     averages |-> BatteryAverages, capped |-> TRUE]

\* (one of the two cycles is exercised in a run of the specification)
BandStart(ph) ==
    /\ Len(pool) < MaxHarnessStarts
    /\ \A other \in Phases \ {ph} : state_code[other] = CYCLE_INIT
    /\ \E start_voltage \in BandVoltages :
         Commit(Charge_Cycle_start(World, ph, start_voltage))
    /\ last' = StepInfo("start", "none", "none", "none", 0, ph)
    /\ UNCHANGED << charger_state, loop_elapsed >>

\* (last.voltage is the battery voltage the run() call read)
BandRun(ph) ==
    /\ LoopDue
    /\ state_code[ph] # CYCLE_INIT
    /\ \E oob \in OobInputs(World, ph) :
       \E charging_current \in CurrentInputs(BandInputs, World, ph, oob) :
       \E battery_voltage \in VoltageInputs(BandInputs, World, ph, oob) :
         LET r == CallRun(World, ph, oob, charging_current, battery_voltage)
         IN /\ Continues(r) => since_start[ph] < Overdue(ph)
            /\ Commit(AfterRun(World, ph, r))
            /\ last' = StepInfo("run", ph, state_code[ph], r.ret,
                                battery_voltage, "none")
    /\ loop_elapsed' = 0
    /\ UNCHANGED charger_state

BandStartAny == \E ph \in HysteresisPhases : BandStart(ph)
BandRunAny == \E ph \in HysteresisPhases : BandRun(ph)

BandNext ==
    \/ Tick
    \/ BandStartAny
    \/ BandRunAny

BandSpec == Init /\ [][BandNext]_vars

\* Every run() call of phase ph that BandSpec can make in the current state
BandCalls(ph) ==
    {[alarm |-> CycleAlarm(World, ph, oob), current |-> c, voltage |-> v,
      r |-> CallRun(World, ph, oob, c, v)] :
        oob \in OobInputs(World, ph), c \in ChargingCurrents,
        v \in BandVoltages}

----------------------------------------------------------------------------
\* The display refresh of Topping, Trickle and Standby (Fast has no display
\* timer: it writes console and display together on message_period), with a
\* display attached.  The cycles are started and run directly, with the time
\* since the last refresh kept per object.  DisplayPeriod is the
\* display_period of the parameter sets (1000 ms in all four), scaled.

DisplayPhases == {topping_charger, trickle_charger, standby_charger}

\* Charge_Cycle::display_period: init() does not copy p.display_period and no
\* other code assigns the member, so it keeps the 0 of static storage
display_period(ph) == 0

\* if (millis() - display_timer >= display_period) { display_timer = millis();
\*     status_message(DISPLAY_OLED); }
Display_refresh(d, period) ==
    IF d.since >= period THEN [since |-> 0, shown |-> TRUE] ELSE d

DisplayTick ==
    /\ pool' = Alarm_Pool_dec(pool)
    /\ TickClocks
    /\ display' =
         [ph \in Phases |->
            [display[ph] EXCEPT
               !.since = IF @ <= DisplayPeriod THEN @ + 1 ELSE @]]
    /\ UNCHANGED << rb, rb_log, out, adding >>

\* (start() leaves display_timer alone; one cycle is exercised in a run of
\* the specification)
DisplayStart(ph) ==
    /\ Len(pool) < MaxHarnessStarts
    /\ \A other \in Phases \ {ph} : state_code[other] = CYCLE_INIT
    /\ \E start_voltage \in BatteryVoltages :
         CommitWorld(Charge_Cycle_start(World, ph, start_voltage))
    /\ display' = [display EXCEPT ![ph].shown = FALSE]
    /\ last' = StepInfo("start", "none", "none", "none", 0, ph)
    /\ UNCHANGED << charger_state, loop_elapsed, rb, rb_log, out, adding >>

DisplayRun(ph) ==
    /\ LoopDue
    /\ state_code[ph] # CYCLE_INIT
    /\ \E oob \in OobInputs(World, ph) :
       \E charging_current \in CurrentInputs(AllInputs, World, ph, oob) :
       \E battery_voltage \in VoltageInputs(AllInputs, World, ph, oob) :
         LET r == CallRun(World, ph, oob, charging_current, battery_voltage)
         IN /\ Continues(r) => since_start[ph] < Overdue(ph)
            /\ CommitWorld(AfterRun(World, ph, r))
            /\ display' =
                 IF Continues(r)
                 THEN [display EXCEPT
                         ![ph] = Display_refresh(@, display_period(ph))]
                 ELSE display
            /\ last' = StepInfo("run", ph, state_code[ph], r.ret, 0, "none")
    /\ loop_elapsed' = 0
    /\ UNCHANGED << charger_state, rb, rb_log, out, adding >>

DisplayStartAny == \E ph \in DisplayPhases : DisplayStart(ph)
DisplayRunAny == \E ph \in DisplayPhases : DisplayRun(ph)

DisplayNext ==
    \/ DisplayTick
    \/ DisplayStartAny
    \/ DisplayRunAny

DisplaySpec == Init /\ [][DisplayNext]_vars

----------------------------------------------------------------------------
\* The formatting functions of the status message called directly:
\* ms_to_hms_str() on periods around every change of digit and of format, and
\* milliunits_to_string() with one decimal place, as every caller asks, and a
\* buffer of six characters, as every caller has, on every value up to the
\* highest battery voltage that can be read.

Periods ==
    {h * HOUR_MS + m * MINUTE_MS + sec * SECOND_MS + ms :
       h \in {0, 1, 99, 100, 101, 595}, m \in {0, 1, 59}, sec \in {0, 1, 59},
       ms \in {0, 999}}

Milliunits == 0..get_voltage_mV(AN_READ_MAX - 1)

\* The value to format is chosen before the call
FormatInit ==
    /\ charger_state = CHARGER_STARTUP
    /\ state_code = [ph \in Phases |-> CYCLE_INIT]
    /\ set_voltage = [ph \in Phases |-> 0]
    /\ charge_timer_id = [ph \in Phases |-> 0]
    /\ since_start = [ph \in Phases |-> 0]
    /\ pool = << >>
    /\ enable_port = FALSE
    /\ vreg_mv = VREG_VOLTAGE_MIN
    /\ loop_elapsed = 0
    /\ last = StepInfo("none", "none", "none", "none", 0, "none")
    /\ rb = RingBuffer16_init(RingSize, [i \in 0..(RingSize - 1) |-> 0])
    /\ rb_log = [appended |-> << >>, read |-> FALSE]
    /\ \E value \in Periods \cup Milliunits :
         out = [arg |-> value, chars |-> << >>]
    /\ display = NoDisplay
    /\ adding = NotAdding

FormatIdle ==
    UNCHANGED << charger_state, state_code, set_voltage, charge_timer_id,
                 since_start, pool, enable_port, vreg_mv, loop_elapsed, rb,
                 rb_log, display, adding >>

FormatTime ==
    /\ out.arg \in Periods
    /\ out' = [out EXCEPT !.chars = ms_to_hms_str(out.arg)]
    /\ last' = StepInfo("ms_to_hms_str", "none", "none", "none", 0, "none")
    /\ FormatIdle

FormatMilliunits ==
    /\ out.arg \in Milliunits
    /\ out' = [out EXCEPT !.chars = milliunits_to_string(out.arg, 1, 6)]
    /\ last' = StepInfo("milliunits_to_string", "none", "none", "none", 0,
                         "none")
    /\ FormatIdle

FormatNext == FormatTime \/ FormatMilliunits

FormatSpec == FormatInit /\ [][FormatNext]_vars

----------------------------------------------------------------------------
\* The regulator driven directly: set_voltage() with any request near either
\* limit, at zero, or wrapped around below zero, and on() / off().

RequestedVoltages ==
    {Sub32(0, 10), 0}
      \cup ((VREG_VOLTAGE_MIN - RequestMargin)..(VREG_VOLTAGE_MIN + RequestMargin))
      \cup ((VREG_VOLTAGE_MAX - RequestMargin)..(VREG_VOLTAGE_MAX + RequestMargin))

VregSetVoltage ==
    /\ \E voltage \in RequestedVoltages :
         /\ vreg_mv' = Vreg_set_voltage(voltage)
         /\ last' = StepInfo("set_voltage", "none", "none", "none", voltage,
                              "none")
    /\ UNCHANGED << rb, rb_log, out, display, adding,
                    charger_state, state_code, set_voltage, charge_timer_id,
                    since_start, pool, enable_port, loop_elapsed >>

VregOn ==
    /\ enable_port' = TRUE
    /\ UNCHANGED << rb, rb_log, out, display, adding,
                    charger_state, state_code, set_voltage, charge_timer_id,
                    since_start, pool, vreg_mv, loop_elapsed, last >>

VregOff ==
    /\ enable_port' = FALSE
    /\ UNCHANGED << rb, rb_log, out, display, adding,
                    charger_state, state_code, set_voltage, charge_timer_id,
                    since_start, pool, vreg_mv, loop_elapsed, last >>

RegulatorNext == VregSetVoltage \/ VregOn \/ VregOff

RegulatorSpec == Init /\ [][RegulatorNext]_vars

----------------------------------------------------------------------------
\* Properties

\* The charger_state in which loop() calls the run() of phase ph
StateOf(ph) ==
    CASE ph = fast_charger -> CHARGER_FAST
      [] ph = topping_charger -> CHARGER_TOPPING
      [] ph = trickle_charger -> CHARGER_TRICKLE
      [] ph = standby_charger -> CHARGER_STANDBY

\* The supervisor is about to call the run() of phase ph
RunCalled(ph) == LoopDue /\ charger_state = StateOf(ph)

\* HarnessSpec can call the run() of phase ph
HarnessCalled(ph) == LoopDue /\ state_code[ph] # CYCLE_INIT

\* Every run() call of phase ph that can be made in the current state: the
\* alarm and the sensor values it reads, and its result
Calls(ph) ==
    {[alarm |-> CycleAlarm(World, ph, oob), current |-> c, voltage |-> v,
      r |-> CallRun(World, ph, oob, c, v)] :
        oob \in OobInputs(World, ph), c \in ChargingCurrents,
        v \in BatteryVoltages}

\* The call finds the startup period elapsed / the countdown at zero
StartupElapsed(ph, call) ==
    U32Ge(Alarm_elapsed(call.alarm), Parms(ph).startup_period)
CountdownZero(call) == Alarm_get(call.alarm) = 0

InRegulatorRange(voltage) ==
    U32Ge(voltage, VREG_VOLTAGE_MIN) /\ U32Le(voltage, VREG_VOLTAGE_MAX)

\* C1: whenever a run() call of any phase has returned, that phase's
\* set_voltage lies within [VREG_VOLTAGE_MIN, VREG_VOLTAGE_MAX].
C1_SetVoltageInRange ==
    last.op = "run" => InRegulatorRange(set_voltage[last.phase])

\* C2: a run() call of any phase that reads the countdown as zero returns
\* TIMEOUT, leaves state_code TIMEOUT and the regulator off, and does not
\* change set_voltage, whatever the sensors read; and after a supervisor step
\* whose run() returned TIMEOUT the phase's state_code is TIMEOUT and, unless
\* the step went on to start the next phase, the regulator is off.
C2_TimeoutComesFirst ==
    /\ \A ph \in Phases :
         RunCalled(ph) =>
           \A call \in Calls(ph) :
             CountdownZero(call) =>
               /\ call.r.ret = CYCLE_TIMEOUT
               /\ call.r.code = CYCLE_TIMEOUT
               /\ ~call.r.on
               /\ call.r.sv = set_voltage[ph]
    /\ (last.op = "run" /\ last.ret = CYCLE_TIMEOUT) =>
         /\ state_code[last.phase] = CYCLE_TIMEOUT
         /\ (last.started = "none" => ~enable_port)

\* A Fast cycle has timed out: its run() returned TIMEOUT and the regulator
\* is off
C2_FastTimedOut ==
    /\ last.op = "run" /\ last.phase = fast_charger
    /\ last.ret = CYCLE_TIMEOUT
    /\ state_code[fast_charger] = CYCLE_TIMEOUT
    /\ ~enable_port

\* C3: a Fast run() call that finds the startup period elapsed, the countdown
\* still running (so that it measures) and the battery voltage at or above
\* target_voltage returns DONE with the regulator off.
C3_FastDoneAtTarget ==
    RunCalled(fast_charger) =>
      \A call \in Calls(fast_charger) :
        (/\ StartupElapsed(fast_charger, call)
         /\ ~CountdownZero(call)
         /\ U32Ge(call.voltage, FAST_PARMS.voltage_target)) =>
          /\ call.r.ret = CYCLE_DONE
          /\ call.r.code = CYCLE_DONE
          /\ ~call.r.on

\* Fast has returned DONE and the supervisor has moved on to Topping
C3_FastReturnedDone ==
    /\ last.op = "run" /\ last.phase = fast_charger
    /\ last.ret = CYCLE_DONE
    /\ state_code[fast_charger] = CYCLE_DONE
    /\ charger_state = CHARGER_TOPPING

C5_TrickleNeverDone ==
    RunCalled(trickle_charger) =>
      \A call \in Calls(trickle_charger) :
        /\ call.r.ret # CYCLE_DONE
        /\ call.r.ret = CYCLE_TIMEOUT <=> CountdownZero(call)
        /\ ~CountdownZero(call) =>
             call.r.ret \in {CYCLE_STARTUP, CYCLE_RUNNING}

\* Trickle run() has returned with the cycle still going
C5_TrickleStillGoing ==
    /\ last.op = "run" /\ last.phase = trickle_charger
    /\ last.ret = CYCLE_RUNNING
    /\ charger_state = CHARGER_TRICKLE
    /\ enable_port

\* C6: the regulator is off when a Standby run() call returns, whether it
\* returns RUNNING or TIMEOUT and whether the regulator was on or off before.
C6_StandbyRegulatorOff ==
    RunCalled(standby_charger) =>
      \A call \in Calls(standby_charger) :
        /\ ~call.r.on
        /\ call.r.ret \in {CYCLE_RUNNING, CYCLE_TIMEOUT}

\* The first Standby run() after start(), which had switched the regulator
\* on, has returned RUNNING and the regulator is off
C6_StandbySwitchedOff ==
    /\ last.op = "run" /\ last.phase = standby_charger
    /\ last.from = CYCLE_STARTUP
    /\ last.ret = CYCLE_RUNNING
    /\ ~enable_port

\* C7: a Fast or Topping run() call that finds the elapsed charge time below
\* startup_period does not return DONE: it returns TIMEOUT if it reads the
\* countdown as zero and STARTUP otherwise, whatever the sensors read.
C7_NoDoneDuringStartup ==
    \A ph \in {fast_charger, topping_charger} :
      RunCalled(ph) =>
        \A call \in Calls(ph) :
          ~StartupElapsed(ph, call) =>
            /\ call.r.ret # CYCLE_DONE
            /\ call.r.ret = IF CountdownZero(call) THEN CYCLE_TIMEOUT
                            ELSE CYCLE_STARTUP

\* Topping run() has returned STARTUP
C7_ToppingInStartup ==
    /\ last.op = "run" /\ last.phase = topping_charger
    /\ last.ret = CYCLE_STARTUP
    /\ state_code[topping_charger] = CYCLE_STARTUP
    /\ charger_state = CHARGER_TOPPING

\* C8: a cycle ends at the latest once charge_period_max ticks have elapsed
\* since its start(): a run() call the supervisor makes then does not leave
\* the cycle going.
C8_CycleEndsByDeadline ==
    \A ph \in Phases :
      (RunCalled(ph) /\ since_start[ph] >= Parms(ph).charge_period_max) =>
        \A call \in Calls(ph) : ~Continues(call.r)

\* C9: in SHUTDOWN the regulator is off; and a step taken in SHUTDOWN stays
\* in SHUTDOWN, calls no start() or run() (no phase object, no regulator
\* setting and no pool entry changes) and is at most the empty SHUTDOWN case.
C9_ShutdownIsTerminal ==
    /\ [](charger_state = CHARGER_SHUTDOWN => ~enable_port)
    /\ [][charger_state = CHARGER_SHUTDOWN =>
             /\ charger_state' = CHARGER_SHUTDOWN
             /\ UNCHANGED << state_code, set_voltage, charge_timer_id,
                             enable_port, vreg_mv >>
             /\ Len(pool') = Len(pool)
             /\ last' \in {last, StepInfo("shutdown", "none", "none", "none",
                                          0, "none")}]_vars

\* The supervisor has run its SHUTDOWN case
C9_InShutdown ==
    /\ charger_state = CHARGER_SHUTDOWN
    /\ last.op = "shutdown"
    /\ ~enable_port

\* C10: the step that leaves STARTUP is the STARTUP case: on the one battery
\* voltage it read it goes to FAST and starts fast_charger if the voltage is
\* at or below BATTERY_DISCHARGED_MV, and to TOPPING and starts
\* topping_charger otherwise; a supervisor step in STARTUP always leaves it;
\* and STARTUP is never entered again.
C10_StartupStep ==
    /\ [][(charger_state = CHARGER_STARTUP /\ charger_state' # CHARGER_STARTUP) =>
             /\ last'.op = "startup"
             /\ IF last'.voltage <= BATTERY_DISCHARGED_MV
                THEN /\ charger_state' = CHARGER_FAST
                     /\ last'.started = fast_charger
                     /\ state_code'[fast_charger] = CYCLE_STARTUP
                     /\ state_code'[topping_charger] = CYCLE_INIT
                ELSE /\ charger_state' = CHARGER_TOPPING
                     /\ last'.started = topping_charger
                     /\ state_code'[topping_charger] = CYCLE_STARTUP
                     /\ state_code'[fast_charger] = CYCLE_INIT]_vars
    /\ [][(charger_state = CHARGER_STARTUP /\ last' # last) =>
             charger_state' # CHARGER_STARTUP]_vars
    /\ [][charger_state # CHARGER_STARTUP =>
             charger_state' # CHARGER_STARTUP]_vars

\* The STARTUP case read a voltage above the threshold and started Topping
C10_StartedTopping ==
    /\ last.op = "startup"
    /\ last.voltage > BATTERY_DISCHARGED_MV
    /\ last.started = topping_charger
    /\ charger_state = CHARGER_TOPPING
    /\ enable_port

\* A supervisor step is taken: loop() passes its LOOP_DELAY gate
StepTaken == loop_elapsed # 0 /\ loop_elapsed' = 0

\* The step calls the run() of phase ph, and of no other phase
RanOnly(ph) ==
    /\ last'.op = "run" /\ last'.phase = ph
    /\ state_code'[ph] = last'.ret
    /\ \A other \in Phases \ {ph, last'.started} :
         /\ state_code'[other] = state_code[other]
         /\ set_voltage'[other] = set_voltage[other]

\* The step calls ph.start(), once: the cycle is in STARTUP with the
\* regulator on and one new alarm, its own, in the pool
StartedOnce(ph) ==
    /\ last'.started = ph
    /\ state_code'[ph] = CYCLE_STARTUP
    /\ enable_port'
    /\ since_start'[ph] = 0
    /\ Len(pool') = Len(pool) + 1
    /\ charge_timer_id'[ph] = Len(pool')

\* The step calls no start()
NothingStarted ==
    /\ last'.started = "none"
    /\ Len(pool') = Len(pool)
    /\ charge_timer_id' = charge_timer_id

\* C11: a supervisor step in FAST runs fast_charger: on STARTUP or RUNNING
\* it stays in FAST and starts nothing; on DONE it moves to TOPPING and
\* calls topping_charger.start() once; on TIMEOUT or ERROR it moves to
\* SHUTDOWN and starts nothing.
C11_FastTransitions ==
    /\ [][(StepTaken /\ charger_state = CHARGER_FAST) =>
             /\ RanOnly(fast_charger)
             /\ CASE last'.ret \in {CYCLE_STARTUP, CYCLE_RUNNING} ->
                       charger_state' = CHARGER_FAST /\ NothingStarted
                  [] last'.ret = CYCLE_DONE ->
                       /\ charger_state' = CHARGER_TOPPING
                       /\ StartedOnce(topping_charger)
                  [] last'.ret \in {CYCLE_TIMEOUT, CYCLE_ERROR} ->
                       charger_state' = CHARGER_SHUTDOWN /\ NothingStarted
                  [] OTHER -> FALSE]_vars
    /\ [](Fast_next(CYCLE_ERROR) = Go(CHARGER_SHUTDOWN, "none"))

\* Fast returned DONE and the supervisor started Topping
C11_FastDoneStartedTopping ==
    /\ last.op = "run" /\ last.phase = fast_charger
    /\ last.ret = CYCLE_DONE
    /\ last.started = topping_charger
    /\ charger_state = CHARGER_TOPPING
    /\ state_code[topping_charger] = CYCLE_STARTUP
    /\ charge_timer_id[topping_charger] = Len(pool)
    /\ enable_port

\* C12: a supervisor step in TOPPING runs topping_charger: on STARTUP or
\* RUNNING it stays in TOPPING and starts nothing; on DONE it moves to
\* TRICKLE and calls trickle_charger.start() once; on TIMEOUT or ERROR it
\* moves to SHUTDOWN and starts nothing.
C12_ToppingTransitions ==
    /\ [][(StepTaken /\ charger_state = CHARGER_TOPPING) =>
             /\ RanOnly(topping_charger)
             /\ CASE last'.ret \in {CYCLE_STARTUP, CYCLE_RUNNING} ->
                       charger_state' = CHARGER_TOPPING /\ NothingStarted
                  [] last'.ret = CYCLE_DONE ->
                       /\ charger_state' = CHARGER_TRICKLE
                       /\ StartedOnce(trickle_charger)
                  [] last'.ret \in {CYCLE_TIMEOUT, CYCLE_ERROR} ->
                       charger_state' = CHARGER_SHUTDOWN /\ NothingStarted
                  [] OTHER -> FALSE]_vars
    /\ [](Topping_next(CYCLE_ERROR) = Go(CHARGER_SHUTDOWN, "none"))

\* Topping returned DONE and the supervisor started Trickle
C12_ToppingDoneStartedTrickle ==
    /\ last.op = "run" /\ last.phase = topping_charger
    /\ last.ret = CYCLE_DONE
    /\ last.started = trickle_charger
    /\ charger_state = CHARGER_TRICKLE
    /\ state_code[trickle_charger] = CYCLE_STARTUP
    /\ enable_port

\* C13: a supervisor step in TRICKLE runs trickle_charger: on STARTUP or
\* RUNNING it stays in TRICKLE; on DONE or TIMEOUT it moves to STANDBY and
\* calls standby_charger.start(); on ERROR it moves to SHUTDOWN.
C13_TrickleTransitions ==
    /\ [][(StepTaken /\ charger_state = CHARGER_TRICKLE) =>
             /\ RanOnly(trickle_charger)
             /\ CASE last'.ret \in {CYCLE_STARTUP, CYCLE_RUNNING} ->
                       charger_state' = CHARGER_TRICKLE /\ NothingStarted
                  [] last'.ret \in {CYCLE_DONE, CYCLE_TIMEOUT} ->
                       /\ charger_state' = CHARGER_STANDBY
                       /\ StartedOnce(standby_charger)
                  [] last'.ret = CYCLE_ERROR ->
                       charger_state' = CHARGER_SHUTDOWN /\ NothingStarted
                  [] OTHER -> FALSE]_vars
    /\ [](/\ Trickle_next(CYCLE_ERROR) = Go(CHARGER_SHUTDOWN, "none")
          /\ Trickle_next(CYCLE_DONE) = Go(CHARGER_STANDBY, standby_charger))

\* Trickle timed out and the supervisor started Standby
C13_TrickleTimedOutToStandby ==
    /\ last.op = "run" /\ last.phase = trickle_charger
    /\ last.ret = CYCLE_TIMEOUT
    /\ last.started = standby_charger
    /\ charger_state = CHARGER_STANDBY
    /\ state_code[standby_charger] = CYCLE_STARTUP

\* C14: a supervisor step in STANDBY runs standby_charger: on RUNNING it
\* stays in STANDBY; on TIMEOUT it reads the battery voltage and moves to
\* FAST, starting fast_charger, if that is at or below
\* BATTERY_DISCHARGED_MV, and to TRICKLE, starting trickle_charger,
\* otherwise: never to TOPPING or SHUTDOWN.
C14_StandbyTransitions ==
    [][(StepTaken /\ charger_state = CHARGER_STANDBY) =>
         /\ RanOnly(standby_charger)
         /\ CASE last'.ret = CYCLE_RUNNING ->
                   charger_state' = CHARGER_STANDBY /\ NothingStarted
              [] last'.ret = CYCLE_TIMEOUT ->
                   IF last'.voltage <= BATTERY_DISCHARGED_MV
                   THEN /\ charger_state' = CHARGER_FAST
                        /\ StartedOnce(fast_charger)
                   ELSE /\ charger_state' = CHARGER_TRICKLE
                        /\ StartedOnce(trickle_charger)
              [] OTHER -> FALSE]_vars

\* Standby timed out on a battery above the threshold and the supervisor
\* started Trickle again
C14_StandbyBackToTrickle ==
    /\ last.op = "run" /\ last.phase = standby_charger
    /\ last.ret = CYCLE_TIMEOUT
    /\ last.voltage > BATTERY_DISCHARGED_MV
    /\ last.started = trickle_charger
    /\ charger_state = CHARGER_TRICKLE

\* The codes of cycle_state_t, and a value outside the enumeration
CycleCodes ==
    {CYCLE_INIT, CYCLE_STARTUP, CYCLE_RUNNING, CYCLE_DONE, CYCLE_ERROR,
     CYCLE_TIMEOUT, "other"}

\* The codes the switch on ph.run() has a case for
CaseCodes(ph) ==
    IF ph = standby_charger THEN {CYCLE_RUNNING, CYCLE_TIMEOUT}
    ELSE {CYCLE_STARTUP, CYCLE_RUNNING, CYCLE_DONE, CYCLE_TIMEOUT, CYCLE_ERROR}

\* C15: a code no case of a phase's switch names sends the supervisor to
\* SHUTDOWN with no start(), and SHUTDOWN is never left and calls no start()
\* or run(); a supervisor step with a charger_state that has no case halts,
\* and after the halt no step is taken: charger_state, the phase objects, the
\* regulator and the number of alarms stay as they are.
C15_UnknownCodeHalts ==
    /\ [](\A ph \in Phases : \A code \in CycleCodes \ CaseCodes(ph) :
           \A battery_average \in BatteryAverages :
             Switch(ph, code, battery_average) = Go(CHARGER_SHUTDOWN, "none"))
    /\ [][charger_state = CHARGER_SHUTDOWN =>
             /\ charger_state' = CHARGER_SHUTDOWN
             /\ UNCHANGED << state_code, set_voltage, charge_timer_id,
                             enable_port, vreg_mv >>
             /\ Len(pool') = Len(pool)]_vars
    /\ [][(StepTaken /\ charger_state \notin CaseStates) =>
             /\ Halted'
             /\ UNCHANGED << charger_state, state_code, set_voltage,
                             charge_timer_id, enable_port, vreg_mv, pool >>]_vars
    /\ [][Halted =>
             /\ UNCHANGED << charger_state, state_code, set_voltage,
                             charge_timer_id, enable_port, vreg_mv, last >>
             /\ Len(pool') = Len(pool)
             /\ loop_elapsed' # 0]_vars

\* loop() has halted on CHARGER_MENU, and time has gone on since
C15_HaltedOnMenu ==
    /\ Halted
    /\ charger_state = CHARGER_MENU
    /\ loop_elapsed >= LoopDelay

\* C16: in every reachable state with charger_state = STANDBY the voltage
\* regulator is off.
C16_StandbyMeansRegulatorOff ==
    charger_state = CHARGER_STANDBY => ~enable_port

\* A phase object whose cycle is going
Active(ph) == state_code[ph] \in {CYCLE_STARTUP, CYCLE_RUNNING}

\* C17: at most one phase object has state_code STARTUP or RUNNING, and it is
\* the one charger_state selects; a supervisor step in the state of a phase
\* calls the run() of that phase and of no other, and a step in any other
\* state calls no run().
C17_OnePhaseAtATime ==
    /\ [](Cardinality({ph \in Phases : Active(ph)}) <= 1)
    /\ [](\A ph \in Phases : Active(ph) => charger_state = StateOf(ph))
    /\ [][StepTaken =>
             /\ \A ph \in Phases :
                  charger_state = StateOf(ph) => RanOnly(ph)
             /\ last'.op = "run" => charger_state = StateOf(last'.phase)]_vars

\* Topping is going after Fast has finished: Fast's state_code is DONE and
\* only topping_charger.run() was called in the last step
C17_ToppingAloneAfterFast ==
    /\ charger_state = CHARGER_TOPPING
    /\ last.op = "run" /\ last.phase = topping_charger
    /\ state_code[fast_charger] = CYCLE_DONE
    /\ Active(topping_charger)

\* start() has just returned: the last call was a start() and no tick has
\* passed since
JustStarted == last.op = "start" /\ since_start[last.phase] = 0

\* C18: when start() returns, for every battery voltage it read, state_code
\* is STARTUP, the regulator is on, the cycle's alarm is a countdown of
\* charge_period_max that has not begun to run down, and set_voltage, which is
\* also the regulator's set-point, is the battery voltage less 100 mV limited
\* to [VREG_VOLTAGE_MIN, VREG_VOLTAGE_MAX].
C18_StartPostcondition ==
    JustStarted =>
      LET ph == last.phase
          soft_start == Vreg_set_voltage(Sub32(last.voltage, 100))
      IN /\ state_code[ph] = CYCLE_STARTUP
         /\ enable_port
         /\ charge_timer_id[ph] \in 1..Len(pool)
         /\ pool[charge_timer_id[ph]] = NewAlarm(Parms(ph).charge_period_max)
         /\ set_voltage[ph] = soft_start
         /\ vreg_mv = soft_start

\* The step is a call of stop() / of init()
StopCalled == last'.op = "stop" /\ last' # last
InitCalled == last'.op = "init" /\ last' # last

\* C19: stop(), called in any cycle state, leaves the regulator off and
\* changes nothing else: every phase's state_code and set_voltage, the
\* countdown alarms and the regulator's set-point are as they were.
C19_StopOnlySwitchesOff ==
    [][StopCalled =>
         /\ ~enable_port'
         /\ UNCHANGED << charger_state, state_code, set_voltage,
                         charge_timer_id, pool, since_start, vreg_mv >>]_vars

\* stop() was called on a cycle in RUNNING: the regulator is off and the
\* cycle is still in RUNNING with its set_voltage
C19_StoppedWhileRunning ==
    /\ last.op = "stop"
    /\ last.from = CYCLE_RUNNING
    /\ state_code[last.phase] = CYCLE_RUNNING
    /\ set_voltage[last.phase] # 0
    /\ ~enable_port

InDacRange(level) == level \in MCP4726_DAC_MIN..MCP4726_DAC_MAX

\* C21: set_voltage(v) programs the DAC for v limited to [VREG_VOLTAGE_MIN,
\* VREG_VOLTAGE_MAX], for every requested v: below the range the set-point
\* is the minimum, above it (a value wrapped around below zero included) the
\* maximum, inside it v itself; so the set-point is never outside
\* [5000, 16000] mV and its DAC level never outside the DAC's range.
C21_SetPointClamped ==
    /\ vreg_mv \in 5000..16000
    /\ InDacRange(calc_dac(vreg_mv))
    /\ last.op = "set_voltage" =>
         vreg_mv = IF last.voltage \in 0..4999 THEN 5000
                   ELSE IF last.voltage \in 5000..16000 THEN last.voltage
                   ELSE 16000

\* set_voltage() was asked for 10 mV less than the minimum and programmed
\* the minimum
C21_RequestBelowMinimum ==
    /\ last.op = "set_voltage"
    /\ last.voltage = VREG_VOLTAGE_MIN - 10
    /\ vreg_mv = VREG_VOLTAGE_MIN
    /\ calc_dac(vreg_mv) = MCP4726_DAC_MAX

\* The step calls timer_pool.add(), from the start() of phase ph
AddCalled(ph) == StepTaken /\ last'.started = ph

\* C22: the k-th call of add(), for k up to 16, puts a fresh alarm of the
\* given period in slot k and returns k, so the ids come out as 1, 2, ...,
\* 16 in order; every later call returns -1 and leaves the number of entries
\* and every alarm as they were; no other id is ever handed out.
C22_AddReturnsIdsInOrder ==
    /\ [][\A ph \in Phases :
             AddCalled(ph) =>
               IF Len(pool) < 16
               THEN /\ charge_timer_id'[ph] = Len(pool) + 1
                    /\ Len(pool') = Len(pool) + 1
                    /\ pool'[Len(pool')] =
                         [period |-> Parms(ph).charge_period_max,
                          timer |-> Parms(ph).charge_period_max]
                    /\ \A k \in 1..Len(pool) : pool'[k] = pool[k]
               ELSE /\ charge_timer_id'[ph] = -1
                    /\ pool' = pool]_vars
    /\ [](Len(pool) <= 16)
    /\ [](\A ph \in Phases :
           \/ state_code[ph] = CYCLE_INIT /\ charge_timer_id[ph] = 0
           \/ charge_timer_id[ph] \in 1..Len(pool)
           \/ charge_timer_id[ph] = -1 /\ Len(pool) = 16)

\* add() has failed twice: two phase objects hold the id -1 and the pool
\* still has its 16 alarms
C22_AddFailedTwice ==
    /\ Len(pool) = 16
    /\ Cardinality({ph \in Phases : charge_timer_id[ph] = -1}) >= 2
    /\ last.started # "none"
    /\ charge_timer_id[last.started] = -1

\* C23: a Fast run() call that reads a current below target_current and a
\* battery voltage below target_voltage, and does not return TIMEOUT, raises
\* set_voltage by exactly step_voltage, or to VREG_VOLTAGE_MAX where the step
\* would pass it (and leaves it there once it is there).
C23_FastRaisesByStep ==
    RunCalled(fast_charger) =>
      \A call \in Calls(fast_charger) :
        (/\ call.current < FAST_PARMS.current_target
         /\ call.voltage < FAST_PARMS.voltage_target
         /\ call.r.ret # CYCLE_TIMEOUT) =>
          call.r.sv =
            IF set_voltage[fast_charger] + FAST_PARMS.voltage_step
                 >= VREG_VOLTAGE_MAX
            THEN VREG_VOLTAGE_MAX
            ELSE set_voltage[fast_charger] + FAST_PARMS.voltage_step

\* The step calls the run() of phase ph
RunStep(ph) == StepTaken /\ last'.op = "run" /\ last'.phase = ph

\* C24: within one cycle the values run() returns go from STARTUP to RUNNING
\* to a terminal code: a run() call of a cycle whose last call returned
\* RUNNING (or DONE, which is returned only after the startup period) does
\* not return STARTUP, and a run() call of a cycle whose last call returned
\* TIMEOUT returns TIMEOUT.
C24_ReturnCodesInOrder ==
    [][\A ph \in Phases :
         RunStep(ph) =>
           /\ state_code[ph] \in {CYCLE_RUNNING, CYCLE_DONE} =>
                last'.ret # CYCLE_STARTUP
           /\ state_code[ph] = CYCLE_TIMEOUT =>
                last'.ret = CYCLE_TIMEOUT]_vars

\* C25: the STARTUP case starts topping charging when the battery voltage it
\* read is at or above BATTERY_DISCHARGED_MV (13000 mV) and fast charging
\* only when it is below, for every reading the A/D converter can give.
C25_ThresholdChoosesFirstCycle ==
    last.op = "startup" =>
      IF last.voltage >= 13000
      THEN /\ charger_state = CHARGER_TOPPING
           /\ last.started = topping_charger
           /\ state_code[topping_charger] = CYCLE_STARTUP
           /\ state_code[fast_charger] = CYCLE_INIT
      ELSE /\ charger_state = CHARGER_FAST
           /\ last.started = fast_charger
           /\ state_code[fast_charger] = CYCLE_STARTUP
           /\ state_code[topping_charger] = CYCLE_INIT

\* The lowest reading at or above the threshold (13003 mV, count 3292)
\* started topping charging
C25_JustAboveThreshold ==
    /\ last.op = "startup"
    /\ last.voltage = get_voltage_mV(3292)
    /\ last.voltage - BATTERY_DISCHARGED_MV \in 0..3
    /\ charger_state = CHARGER_TOPPING
    /\ state_code[topping_charger] = CYCLE_STARTUP

\* The entries of the ring buffer from the oldest to the newest
RingContents ==
    [k \in 1..RingBuffer16_available(rb) |->
       rb.buffer[(rb.tail + k - 1) % rb.buffer_size]]

\* The last n of the samples appended
LastAppended(n) ==
    SubSeq(rb_log.appended, Len(rb_log.appended) - n + 1,
           Len(rb_log.appended))

\* C26: when more samples than the buffer's size have been appended and none
\* read, the buffer holds the newest samples in order (only the oldest are
\* gone) and the append that made it so set the overflow flag; the flag stays
\* set until overflow() is called; overflow() returns the flag and clears it,
\* so it returns true once and false afterwards until a further overwrite.
C26_OverflowFlag ==
    /\ [](~rb_log.read =>
           /\ RingBuffer16_available(rb) <= Len(rb_log.appended)
           /\ RingContents = LastAppended(RingBuffer16_available(rb)))
    /\ []((~rb_log.read /\ Len(rb_log.appended) > RingSize) =>
           RingBuffer16_available(rb) = RingSize - 1)
    /\ [][(last'.op = "append" /\ rb_log' # rb_log /\ ~rb_log.read
            /\ Len(rb_log'.appended) > RingSize) =>
             rb'.buffer_overflow]_vars
    /\ [][(rb.buffer_overflow /\ ~rb'.buffer_overflow) =>
             last'.op = "overflow" /\ last'.ret = "true"]_vars
    /\ [][(last'.op = "overflow" /\ rb' # rb) => rb.buffer_overflow]_vars
    /\ [](last.op = "overflow" => ~rb.buffer_overflow)
    /\ [][(last.op = "overflow" /\ last'.op = "overflow") =>
             last'.ret = "false"]_vars

\* More samples than the buffer's size were appended with nothing read, and
\* overflow() has then reported the overwrite and cleared the flag
C26_OverflowReported ==
    /\ ~rb_log.read
    /\ Len(rb_log.appended) > RingSize
    /\ last.op = "overflow"
    /\ last.ret = "true"
    /\ ~rb.buffer_overflow

\* Two decimal digits
TwoDigits(n) == << Digit(n \div 10), Digit(n % 10) >>

C28_RoundedToOneDecimal ==
    last.op = "milliunits_to_string" =>
      LET m == out.arg
          tenths == (m + 50) \div 100
          W == tenths \div 10
          F == tenths % 10
      IN /\ out.chars = Decimal(W) \o << ".", Digit(F) >>
         /\ m = 13450 => out.chars = << "1", "3", ".", "5" >>
         /\ m = 13440 => out.chars = << "1", "3", ".", "4" >>
         /\ m = 13950 => out.chars = << "1", "4", ".", "0" >>

\* 13950 was written as 14.0: the ten tenths were carried into the whole part
C28_CarriedIntoWhole ==
    /\ last.op = "milliunits_to_string"
    /\ out.arg = 13950
    /\ out.chars = << "1", "4", ".", "0" >>

C30_HysteresisRegulation ==
    \A ph \in HysteresisPhases :
      (LoopDue /\ state_code[ph] # CYCLE_INIT) =>
        \A call \in BandCalls(ph) :
          call.r.ret \notin {CYCLE_TIMEOUT, CYCLE_DONE} =>
            LET sv == set_voltage[ph]
                step == Parms(ph).voltage_step
                target == Parms(ph).voltage_target
            IN IF call.current > Parms(ph).current_max
               THEN call.r.sv = sv - step
               ELSE IF call.voltage > target + VOLTS_HYSTERESIS
               THEN call.r.sv = sv - step
               ELSE IF call.voltage < target - VOLTS_HYSTERESIS
               THEN call.r.sv = sv + step
               ELSE call.r.sv = sv /\ call.r.mv = vreg_mv

\* A Trickle run() call has read 13402 mV, inside the band, after a cycle
\* start at 13398 mV: set_voltage and the regulator are where start() left
\* them
C30_TrickleInsideBand ==
    /\ last.op = "run" /\ last.phase = trickle_charger
    /\ last.ret = CYCLE_RUNNING
    /\ last.voltage = get_voltage_mV(3393)
    /\ set_voltage[trickle_charger] = get_voltage_mV(3392) - 100
    /\ vreg_mv = set_voltage[trickle_charger]

\* C31: a run() call of a cycle that has been started, reading a current
\* above max_current, does not leave the regulator at a higher set-point than
\* it had before the call, however many such calls came before it.
C31_OverCurrentNeverRaises ==
    \A ph \in Phases :
      (LoopDue /\ state_code[ph] \in {CYCLE_STARTUP, CYCLE_RUNNING}) =>
        \A call \in Calls(ph) :
          (call.r.measured /\ call.current > Parms(ph).current_max) =>
            call.r.mv <= vreg_mv

\* C32: whenever the supervisor calls the run() of a phase, which reads the
\* phase's alarm with timer_pool.get() and timer_pool.elapsed(), the phase's
\* charge_timer_id is the id of an entry of the pool: it lies in
\* 1..(number of entries), however many cycles were started before.
C32_TimerIdIsValid ==
    \A ph \in Phases :
      RunCalled(ph) => charge_timer_id[ph] \in 1..Len(pool)

\* C33: the pool starts empty; a step that calls start() adds one alarm to
\* it while fewer than 16 are in it, and none after that; every other step
\* leaves the number of entries as it is; and an entry, once added, keeps its
\* slot and its period.  So the number of entries is the number of start()
\* calls so far, or 16 when there were more, and never decreases.
C33_OneAlarmPerStart ==
    [][LET started == \E ph \in Phases : AddCalled(ph)
       IN /\ Len(pool') =
               IF started /\ Len(pool) < STM32_TIME_MAX_ALARMS
               THEN Len(pool) + 1 ELSE Len(pool)
          /\ \A k \in 1..Len(pool) : pool'[k].period = pool[k].period]_vars

\* The 17th start() has been made: the pool still holds 16 alarms and the
\* cycle started last is the only one without an alarm
C33_SeventeenthStart ==
    /\ Len(pool) = STM32_TIME_MAX_ALARMS
    /\ last.started # "none"
    /\ {ph \in Phases : charge_timer_id[ph] = -1} = {last.started}

\* The step is a timer tick: every other step of the supervisor loop passes
\* the LOOP_DELAY gate and restarts the loop timer
TickTaken == loop_elapsed' # 0

\* C34: an alarm of the pool (all are added without a callback) starts with
\* its remaining time equal to its period; a tick takes exactly 1 off the
\* remaining time while it is positive and leaves it at 0 once it is 0; no
\* other step changes it; and in every state the remaining time is at most
\* the period, so that get(id) + elapsed(id) = period with
\* 0 <= elapsed(id) <= period.
C34_AlarmCountsDown ==
    /\ [](\A k \in 1..Len(pool) :
            /\ Alarm_get(pool[k]) \in 0..pool[k].period
            /\ Alarm_elapsed(pool[k]) \in 0..pool[k].period
            /\ Alarm_get(pool[k]) + Alarm_elapsed(pool[k]) = pool[k].period)
    /\ [][/\ \A k \in (Len(pool) + 1)..Len(pool') :
               Alarm_get(pool'[k]) = pool'[k].period
          /\ \A k \in 1..Len(pool) :
               Alarm_get(pool'[k]) =
                 IF TickTaken /\ Alarm_get(pool[k]) > 0
                 THEN Alarm_get(pool[k]) - 1
                 ELSE Alarm_get(pool[k])]_vars

\* One alarm has run down to 0 and stayed there through a later tick while a
\* younger one is still counting
C34_OneExpiredOneCounting ==
    \E j, k \in 1..Len(pool) :
      /\ j < k
      /\ Alarm_get(pool[j]) = 0
      /\ Alarm_elapsed(pool[j]) = pool[j].period
      /\ Alarm_get(pool[k]) > 0
      /\ Alarm_elapsed(pool[k]) > 1

\* C35: a timer tick changes nothing but the remaining time of the alarms in
\* the pool: the number of entries, the slot and the period of each alarm,
\* every phase's state_code, set_voltage and alarm id, the regulator's enable
\* pin and set-point and charger_state are as they were.
C35_TickFrame ==
    [][TickTaken =>
         /\ Len(pool') = Len(pool)
         /\ \A k \in 1..Len(pool) : pool'[k].period = pool[k].period
         /\ UNCHANGED << state_code, set_voltage, charge_timer_id,
                         enable_port, vreg_mv, charger_state >>]_vars

\* A tick has come between two run() calls of a Fast cycle: its alarm has
\* counted down and the regulator is still on
C35_TickedWhileCharging ==
    /\ loop_elapsed # 0
    /\ charger_state = CHARGER_FAST
    /\ last.op = "run" /\ last.phase = fast_charger
    /\ enable_port
    /\ Alarm_elapsed(pool[charge_timer_id[fast_charger]]) > 1

\* C36: for Topping, Trickle and Standby, two display refreshes of a cycle
\* that follow one another are at least p.display_period apart: a run() call
\* that refreshes the display, in a cycle whose display was refreshed before,
\* comes at least DisplayPeriod after that refresh.
C36_DisplayCadence ==
    [][\A ph \in DisplayPhases :
         (/\ last'.op = "run" /\ last'.phase = ph /\ loop_elapsed' = 0
          /\ display[ph].shown
          /\ display[ph].since > 0
          /\ display'[ph].shown /\ display'[ph].since = 0) =>
           display[ph].since >= DisplayPeriod]_vars

\* The sum of a sequence of numbers
RECURSIVE SumOf(_)
SumOf(seq) == IF seq = << >> THEN 0 ELSE Head(seq) + SumOf(Tail(seq))

\* C37: once at least RB_CHARGING_CURRENT_SAMPLES samples have been appended
\* to the charging-current buffer, available() is
\* RB_CHARGING_CURRENT_SAMPLES and average() is the integer mean of the
\* RB_CHARGING_CURRENT_SAMPLES samples appended last.
C37_KeepsTenSamples ==
    Len(rb_log.appended) >= RB_CHARGING_CURRENT_SAMPLES =>
      /\ RingBuffer16_available(rb) = RB_CHARGING_CURRENT_SAMPLES
      /\ RingBuffer16_average(rb) =
           SumOf(LastAppended(RB_CHARGING_CURRENT_SAMPLES))
             \div RB_CHARGING_CURRENT_SAMPLES

\* C38: every run() call the supervisor makes returns a code its case
\* handles by name: STARTUP, RUNNING, DONE or TIMEOUT from Fast and Topping,
\* STARTUP, RUNNING or TIMEOUT from Trickle, RUNNING or TIMEOUT from Standby,
\* and never INIT or ERROR; and charger_state is always one of STARTUP, FAST,
\* TOPPING, TRICKLE, STANDBY and SHUTDOWN.
C38_OnlyHandledCodes ==
    /\ charger_state \in {CHARGER_STARTUP, CHARGER_FAST, CHARGER_TOPPING,
                          CHARGER_TRICKLE, CHARGER_STANDBY, CHARGER_SHUTDOWN}
    /\ \A ph \in Phases :
         RunCalled(ph) =>
           \A call \in Calls(ph) :
             /\ call.r.ret \notin {CYCLE_INIT, CYCLE_ERROR}
             /\ call.r.ret \in
                  CASE ph \in {fast_charger, topping_charger} ->
                         {CYCLE_STARTUP, CYCLE_RUNNING, CYCLE_DONE,
                          CYCLE_TIMEOUT}
                    [] ph = trickle_charger ->
                         {CYCLE_STARTUP, CYCLE_RUNNING, CYCLE_TIMEOUT}
                    [] ph = standby_charger ->
                         {CYCLE_RUNNING, CYCLE_TIMEOUT}
    /\ last.op = "run" =>
         last.ret \in {CYCLE_STARTUP, CYCLE_RUNNING, CYCLE_DONE, CYCLE_TIMEOUT}

\* A Topping cycle has timed out and the supervisor has left TOPPING by the
\* TIMEOUT branch of its case
C38_ToppingTimedOut ==
    /\ last.op = "run" /\ last.phase = topping_charger
    /\ last.ret = CYCLE_TIMEOUT
    /\ state_code[topping_charger] = CYCLE_TIMEOUT
    /\ charger_state # CHARGER_TOPPING

\* The step is a tick that comes while add() is in progress
TickDuringAdd ==
    /\ adding.ph # "none"
    /\ adding'.ph = adding.ph
    /\ adding'.todo = adding.todo

\* The step is a tick that comes while no add() is in progress
TickOutsideAdd == adding.ph = "none" /\ adding' = adding

\* The alarms registered before the add() call in progress, if any, began
Registered == IF adding.ph = "none" THEN Len(pool) ELSE adding.base

\* C39: a tick that comes inside add() before entries is incremented leaves
\* the slot being initialised alone; once add() has returned, every alarm of
\* the pool, the new one included, has a remaining time of at most its
\* period (so remaining + elapsed = period without wrap-around); and the
\* alarms registered before the call lose 1 per tick while positive and are
\* otherwise untouched by the call.
C39_AddIsTickSafe ==
    /\ [][(TickDuringAdd /\ "entries" \in adding.todo) =>
             adding'.slot = adding.slot]_vars
    /\ [](adding.ph = "none" =>
            \A k \in 1..Len(pool) :
              /\ Alarm_get(pool[k]) \in 0..pool[k].period
              /\ Alarm_get(pool[k]) + Alarm_elapsed(pool[k]) = pool[k].period)
    /\ [][\A k \in 1..Registered :
             /\ pool'[k].period = pool[k].period
             /\ Alarm_get(pool'[k]) =
                  IF (TickDuringAdd \/ TickOutsideAdd) /\ Alarm_get(pool[k]) > 0
                  THEN Alarm_get(pool[k]) - 1
                  ELSE Alarm_get(pool[k])]_vars

\* add() has just returned the second alarm, which a tick that came inside
\* the call, after entries was incremented, has already counted down
C39_TickInsideAdd ==
    /\ adding.ph = "none"
    /\ last.started # "none"
    /\ charge_timer_id[last.started] = 2
    /\ since_start[last.started] = 0
    /\ Alarm_elapsed(pool[2]) = 1

====
